---------------------------- MODULE Spec2Model ----------------------------
(***************************************************************************)
(* phantom-frame: a caching reverse proxy.                                 *)
(*                                                                         *)
(* Strings are modelled as sequences of one-character strings, so that the *)
(* pattern matcher (src/src/path_matcher.rs), the invalidation matcher and *)
(* the cache store (src/src/cache.rs) and the request pipeline             *)
(* (src/src/proxy.rs) are computed the way the code computes them.         *)
(*                                                                         *)
(* Specifications:                                                         *)
(*   SpecMatcher  the pure functions of path_matcher.rs on bounded inputs  *)
(*   SpecStore    tasks calling the CacheStore operations concurrently     *)
(*   Spec         request tasks, the refresh trigger and the listener      *)
(***************************************************************************)
EXTENDS Integers, Sequences, FiniteSets, TLC

(***************************************************************************)
(* Bounds of the model.                                                    *)
(***************************************************************************)
MaxPathLen == 3
MaxGlobLen == 3
MaxListLen == 2
NumTasks == 2
MaxCapacity == 2
NumBodies == 2

(***************************************************************************)
(* Characters and string helpers (Rust str methods).                       *)
(***************************************************************************)
SP == " "
TAB == "\t"
STAR == "*"

\* char::is_whitespace, restricted to the whitespace of the model's alphabet
IsWhitespace(c) == c \in {SP, TAB}

\* str::starts_with
StartsWith(s, p) == Len(p) <= Len(s) /\ SubSeq(s, 1, Len(p)) = p

\* str::ends_with
EndsWith(s, p) == Len(p) <= Len(s) /\ SubSeq(s, Len(s) - Len(p) + 1, Len(s)) = p

\* &s[pos..]
SliceFrom(s, pos) == SubSeq(s, pos + 1, Len(s))

\* Option::None of str::find
NotFound == -1

\* str::find: the byte offset of the first occurrence of p in s
Find(s, p) ==
    LET hits == {i \in 0..(Len(s) - Len(p)) : SubSeq(s, i + 1, i + Len(p)) = p}
    IN  IF hits = {} THEN NotFound
        ELSE CHOOSE i \in hits : \A j \in hits : i <= j

\* str::trim_start
RECURSIVE TrimStart(_)
TrimStart(s) ==
    IF s # <<>> /\ IsWhitespace(Head(s)) THEN TrimStart(Tail(s)) ELSE s

\* str::trim_end
RECURSIVE TrimEnd(_)
TrimEnd(s) ==
    IF s # <<>> /\ IsWhitespace(s[Len(s)])
    THEN TrimEnd(SubSeq(s, 1, Len(s) - 1))
    ELSE s

\* str::trim
Trim(s) == TrimEnd(TrimStart(s))

\* str::split(c).collect(): the segments between the occurrences of c
RECURSIVE SplitAcc(_, _, _)
SplitAcc(s, c, cur) ==
    IF s = <<>> THEN <<cur>>
    ELSE IF Head(s) = c THEN <<cur>> \o SplitAcc(Tail(s), c, <<>>)
    ELSE SplitAcc(Tail(s), c, Append(cur, Head(s)))

Split(s, c) == SplitAcc(s, c, <<>>)

(***************************************************************************)
(* src/src/path_matcher.rs                                                 *)
(***************************************************************************)
GET == <<"G", "E", "T">>
POST == <<"P", "O", "S", "T">>
PUT == <<"P", "U", "T">>
DELETE == <<"D", "E", "L", "E", "T", "E">>
PATCH == <<"P", "A", "T", "C", "H">>
HEAD == <<"H", "E", "A", "D">>
OPTIONS == <<"O", "P", "T", "I", "O", "N", "S">>
CONNECT == <<"C", "O", "N", "N", "E", "C", "T">>
TRACE == <<"T", "R", "A", "C", "E">>

\* let methods = [...] in parse_pattern, in the order of the array
methods == <<GET, POST, PUT, DELETE, PATCH, HEAD, OPTIONS, CONNECT, TRACE>>

\* Option::None for a method
NoMethod == <<"-">>

\* the for loop of parse_pattern over methods[i..], pattern already trimmed
RECURSIVE parse_loop(_, _)
parse_loop(pattern, i) ==
    IF i > Len(methods) THEN <<NoMethod, pattern>>
    ELSE LET method == methods[i]
             rest == SliceFrom(pattern, Len(method))
         IN  IF StartsWith(pattern, method)
                /\ (StartsWith(rest, <<SP>>) \/ StartsWith(rest, <<TAB>>))
             THEN <<method, TrimStart(rest)>>
             ELSE parse_loop(pattern, i + 1)

\* parse_pattern without the trim: a pattern with surrounding whitespace is
\* then taken as it stands
parse_pattern_notrim(pattern) == parse_loop(pattern, 1)

\* fn parse_pattern(pattern) -> (Option<&str>, &str)
parse_pattern(pattern) == parse_loop(Trim(pattern), 1)

\* the for loop of matches_path_pattern from segment i with current_pos = cur
RECURSIVE path_loop(_, _, _, _)
path_loop(path, segments, i, cur) ==
    IF i > Len(segments) THEN TRUE
    ELSE LET segment == segments[i]
         IN  IF i = 1
             THEN IF segment # <<>> /\ ~StartsWith(path, segment)
                  THEN FALSE
                  ELSE path_loop(path, segments, i + 1, Len(segment))
             ELSE IF i = Len(segments)
             THEN IF segment # <<>> /\ ~EndsWith(path, segment)
                  THEN FALSE
                  ELSE IF segment # <<>>
                  THEN LET pos == Find(SliceFrom(path, cur), segment)
                       IN  IF pos # NotFound
                           THEN IF cur + pos + Len(segment) # Len(path)
                                THEN FALSE
                                ELSE path_loop(path, segments, i + 1, cur)
                           ELSE FALSE
                  ELSE path_loop(path, segments, i + 1, cur)
             ELSE LET pos == Find(SliceFrom(path, cur), segment)
                  IN  IF pos # NotFound
                      THEN path_loop(path, segments, i + 1, cur + pos + Len(segment))
                      ELSE FALSE

\* fn matches_path_pattern(path, pattern) -> bool
matches_path_pattern(path, pattern) ==
    LET segments == Split(pattern, STAR)
    IN  IF Len(segments) = 1 THEN path = pattern
        ELSE path_loop(path, segments, 1, 0)

\* matches_pattern_with_method with the method comparison left out
matches_pattern_any_method(method, path, pattern) ==
    matches_path_pattern(path, parse_pattern(pattern)[2])

\* pub fn matches_pattern_with_method(method: Option<&str>, path, pattern) -> bool
matches_pattern_with_method(method, path, pattern) ==
    LET parsed == parse_pattern(pattern)
        pattern_method == parsed[1]
        path_pattern == parsed[2]
    IN  IF pattern_method # NoMethod
           /\ (IF method # NoMethod THEN pattern_method # method ELSE TRUE)
        THEN FALSE
        ELSE matches_path_pattern(path, path_pattern)

\* pub fn matches_pattern(path, pattern) -> bool
matches_pattern(path, pattern) == matches_pattern_with_method(NoMethod, path, pattern)

\* the loop over exclude_paths[i..]: TRUE when one of them matches
RECURSIVE any_matches(_, _, _, _)
any_matches(method, path, patterns, i) ==
    IF i > Len(patterns) THEN FALSE
    ELSE IF matches_pattern_with_method(method, path, patterns[i]) THEN TRUE
    ELSE any_matches(method, path, patterns, i + 1)

\* should_cache_path with the include list consulted before the exclude list
should_cache_path_include_first(method, path, include_paths, exclude_paths) ==
    IF include_paths = <<>> THEN ~any_matches(method, path, exclude_paths, 1)
    ELSE IF any_matches(method, path, include_paths, 1) THEN TRUE
    ELSE FALSE

\* pub fn should_cache_path(method, path, include_paths, exclude_paths) -> bool
should_cache_path(method, path, include_paths, exclude_paths) ==
    IF exclude_paths # <<>> /\ any_matches(method, path, exclude_paths, 1) THEN FALSE
    ELSE IF include_paths = <<>> THEN TRUE
    ELSE IF any_matches(method, path, include_paths, 1) THEN TRUE
    ELSE FALSE

(***************************************************************************)
(* src/src/lib.rs: the default cache key function                          *)
(***************************************************************************)
\* a key that leaves the query out
default_cache_key_no_query(method, path, query) == method \o <<":">> \o path

\* cache_key_fn of CreateProxyConfig::new: METHOD:PATH or METHOD:PATH?QUERY
default_cache_key(method, path, query) ==
    IF query = <<>> THEN method \o <<":">> \o path
    ELSE method \o <<":">> \o path \o <<"?">> \o query

(***************************************************************************)
(* src/src/cache.rs                                                        *)
(***************************************************************************)
\* the for loop of cache::matches_pattern from part i with current_pos = cur
RECURSIVE key_loop(_, _, _, _)
key_loop(key, parts, i, cur) ==
    IF i > Len(parts) THEN TRUE
    ELSE LET part == parts[i]
         IN  IF part = <<>> THEN key_loop(key, parts, i + 1, cur)
             ELSE IF i = 1
             THEN IF ~StartsWith(key, part) THEN FALSE
                  ELSE key_loop(key, parts, i + 1, Len(part))
             ELSE IF i = Len(parts)
             THEN IF ~EndsWith(SliceFrom(key, cur), part) THEN FALSE
                  ELSE key_loop(key, parts, i + 1, cur)
             ELSE LET pos == Find(SliceFrom(key, cur), part)
                  IN  IF pos # NotFound
                      THEN key_loop(key, parts, i + 1, cur + pos + Len(part))
                      ELSE FALSE

\* fn matches_pattern(key, pattern) -> bool of cache.rs
cache_matches_pattern(key, pattern) ==
    IF key = pattern THEN TRUE
    ELSE LET parts == Split(pattern, STAR)
         IN  IF Len(parts) = 1 THEN FALSE
             ELSE key_loop(key, parts, 1, 0)

\* HashMap::new()
EmptyMap == [k \in {} |-> k]

\* HashMap::insert
MapInsert(m, key, value) ==
    [k \in DOMAIN m \cup {key} |-> IF k = key THEN value ELSE m[k]]

\* HashMap::remove
MapRemove(m, key) == [k \in DOMAIN m \ {key} |-> m[k]]

\* retain with its predicate inverted: the matching entries are the ones kept
MapRetainMatching(m, pattern) ==
    [k \in {x \in DOMAIN m : cache_matches_pattern(x, pattern)} |-> m[k]]

\* HashMap::retain(|key, _| !matches_pattern(key, pattern))
MapRetainNotMatching(m, pattern) ==
    [k \in {x \in DOMAIN m : ~cache_matches_pattern(x, pattern)} |-> m[k]]

\* HashMap::get(key).cloned(): <<>> is None, <<v>> is Some(v)
MapGet(m, key) == IF key \in DOMAIN m THEN <<m[key]>> ELSE <<>>

\* keys.iter().position(|k| k == &key) followed by keys.remove(pos)
RemoveFirst(keys, key) ==
    IF \E i \in DOMAIN keys : keys[i] = key
    THEN LET pos == CHOOSE i \in DOMAIN keys :
                        keys[i] = key /\ \A j \in DOMAIN keys : keys[j] = key => i <= j
         IN  SubSeq(keys, 1, pos - 1) \o SubSeq(keys, pos + 1, Len(keys))
    ELSE keys

\* VecDeque::retain(|k| !matches_pattern(k, pattern))
RECURSIVE SeqRetainNotMatching(_, _)
SeqRetainNotMatching(keys, pattern) ==
    IF keys = <<>> THEN <<>>
    ELSE IF cache_matches_pattern(Head(keys), pattern)
    THEN SeqRetainNotMatching(Tail(keys), pattern)
    ELSE <<Head(keys)>> \o SeqRetainNotMatching(Tail(keys), pattern)

\* the eviction loop taking the newest key instead of the oldest
RECURSIVE evict_newest(_, _, _)
evict_newest(map, keys, capacity) ==
    IF Len(keys) > capacity
    THEN evict_newest(MapRemove(map, keys[Len(keys)]),
                      SubSeq(keys, 1, Len(keys) - 1), capacity)
    ELSE [map |-> map, keys |-> keys]

\* no eviction at all
evict_never(map, keys, capacity) == [map |-> map, keys |-> keys]

\* while keys.len() > capacity { pop_front, store.remove }
RECURSIVE evict(_, _, _)
evict(map, keys, capacity) ==
    IF Len(keys) > capacity
    THEN evict(MapRemove(map, Head(keys)), Tail(keys), capacity)
    ELSE [map |-> map, keys |-> keys]

\* the re-insertion branch left out: the key keeps its earlier position too
unlink_never(map, keys, key) == keys

\* if store.contains_key(&key) { remove the key from keys }
unlink(map, keys, key) ==
    IF key \in DOMAIN map THEN RemoveFirst(keys, key) ELSE keys

\* a body that pushes the key without looking for it in the FIFO
set_404_body_appending(map, keys, key, response, capacity) ==
    evict(MapInsert(map, key, response), Append(keys, key), capacity)

\* the body of set_404 under both write guards: the new map and FIFO
set_404_body(map, keys, key, response, capacity) ==
    evict(MapInsert(map, key, response), Append(unlink(map, keys, key), key), capacity)

(***************************************************************************)
(* State.                                                                  *)
(***************************************************************************)
VARIABLES
    mcall,      \* SpecMatcher: the call under evaluation (function and arguments)
    mret,       \* SpecMatcher: <<>> while the call is pending, then <<its result>>
    store,      \* CacheStore.store: the positive map, key -> CachedResponse
    store_404,  \* CacheStore.store_404: the negative map
    keys_404,   \* CacheStore.keys_404: the FIFO of the negative map's keys
    cache_404_capacity, \* CacheStore.cache_404_capacity
    lock,       \* the holder of each RwLock's write guard, Free when none
    pc,         \* where each task stands in its store operation or in proxy_handler
    op,         \* SpecStore: the operation a task runs or has just returned from
    ret,        \* SpecStore: the value the operation returned
    h_inserted, \* history: the (key, response) pairs set_404 inserted, in order
    h_pure,     \* history: only set_404 calls with distinct keys have run so far
    h_reins,    \* history: per key, the keys in the FIFO when it was re-inserted
    config,     \* ProxyState.config: the CreateProxyConfig the proxy was created with
    req,        \* Spec: per handler task, the request and the handler's locals
    client_response, \* Spec: per handler task, <<>> or <<the response it returned>>
    chan,       \* the broadcast channel of the RefreshTrigger: messages not yet received
    listener,   \* the task spawn_refresh_listener spawned: position, message, lag
    h_origin,   \* history: per handler task, how often it contacted the origin
    h_cache,    \* history: per handler task, whether it read or wrote the store
    h_stored,   \* history: per key, the response returned by the miss that stored it
    h_stale,    \* history: the handlers holding, and the keys stored with, a response
                \* that was read before an All message was sent to the listener
    n_requests, \* the requests received so far
    n_triggers, \* the refresh messages sent so far
    h_sent,     \* history: the refresh messages published, in the order of the calls
    h_next,     \* history: the position in h_sent of the message the listener is to receive next
    tunnel,     \* the upgrade handles and the task handle_upgrade_request spawns
    wire,       \* the client's and the origin's byte streams of an upgraded connection
    waiting,    \* per lock of the CacheStore, the tasks queued for its guard, oldest first
    auth_token, \* ControlState.auth_token: <<>> or <<the bearer token>>
    control,    \* the request refresh_cache_handler served last and its response
    h_lookups,  \* history: per handler task, the maps it looked its key up in, in order
    h_due       \* history: the stored keys that matched a message when it was sent and are still stored

matcherVars == <<mcall, mret>>

cacheVars == <<store, store_404, keys_404, cache_404_capacity, lock>>

taskVars == <<pc, op, ret>>

historyVars == <<h_inserted, h_pure, h_reins>>

triggerHistory == <<h_sent, h_next, h_due>>

proxyVars == <<config, req, client_response, chan, listener, h_origin, h_cache, h_stored, h_stale,
               n_requests, n_triggers, triggerHistory, h_lookups, auth_token, control,
               tunnel, wire,
          waiting>>

vars == <<mcall, mret, store, store_404, keys_404, cache_404_capacity, lock,
          pc, op, ret, h_inserted, h_pure, h_reins, config, req, client_response,
          chan,
          listener, h_origin, h_cache, h_stored, h_stale, n_requests, n_triggers,
          h_sent, h_next, h_due, h_lookups, auth_token, control, tunnel, wire,
          waiting>>

(***************************************************************************)
(* The cache store: CacheStore::new and the steps of its operations.  A    *)
(* step runs from one .await to the next; h is the task taking the step.   *)
(***************************************************************************)
Free == 0

StoreKeys ==
    {default_cache_key(GET, <<"/", "a">>, <<>>),
     default_cache_key(GET, <<"/", "b">>, <<>>),
     default_cache_key(POST, <<"/", "a">>, <<>>)}

\* CachedResponse values as the store's own tests build them
StoreResponses ==
    {[status |-> 404, headers |-> {}, body |-> <<b>>] : b \in 1..NumBodies}

StorePatterns == {GET \o <<":", "/", STAR>>, <<STAR, "/", "a">>}

NoReins == [ahead |-> {}, bumped |-> {}]

Range(f) == {f[x] : x \in DOMAIN f}

\* CacheStore::new(refresh_trigger, cache_404_capacity)
NewStore(capacity) ==
    /\ store = EmptyMap
    /\ store_404 = EmptyMap
    /\ keys_404 = <<>>
    /\ cache_404_capacity = capacity
    /\ lock = [store |-> Free, store_404 |-> Free, keys_404 |-> Free]
    /\ h_inserted = <<>>
    /\ h_pure = TRUE
    /\ h_reins = [k \in StoreKeys |-> NoReins]

\* history of a step that empties the FIFO or removes the keys in gone from it
Forget(gone) ==
    /\ h_inserted' = <<>>
    /\ h_pure' = FALSE
    /\ h_reins' = [k \in StoreKeys |->
                     IF k \in gone THEN NoReins
                     ELSE [ahead |-> h_reins[k].ahead \ gone,
                           bumped |-> h_reins[k].bumped \ gone]]

\* history of the set_404 body inserting key into map/keys, leaving FIFO after
Remember(key, response, after) ==
    LET present == key \in DOMAIN store_404
        gone == (Range(keys_404) \cup {key}) \ Range(after)
        fresh == h_pure /\ \A i \in DOMAIN h_inserted : h_inserted[i].key # key
    IN  /\ h_pure' = fresh
        /\ h_inserted' = IF fresh
                         THEN Append(h_inserted, [key |-> key, response |-> response])
                         ELSE <<>>
        /\ h_reins' = [k \in StoreKeys |->
              IF k \in gone THEN NoReins
              ELSE IF k = key
              THEN [ahead |-> IF present THEN Range(after) \ {key} ELSE {},
                    bumped |-> {}]
              ELSE [ahead |-> h_reins[k].ahead \ gone,
                    bumped |-> (h_reins[k].bumped
                                \cup (IF present THEN {key} \cap h_reins[k].ahead ELSE {}))
                               \ gone]]

\* pub async fn get(&self, key): the read guard is taken and dropped in one step
get_step(key) == lock.store = Free

\* pub async fn get_404(&self, key)
get_404_step(key) == lock.store_404 = Free

\* the value get_404 returns: store_404.get(key).cloned()
get_404(key) == MapGet(store_404, key)

\* set without its insert: the response is dropped
set_step_dropped(key, response) ==
    /\ lock.store = Free
    /\ UNCHANGED <<store, store_404, keys_404, cache_404_capacity, lock, historyVars>>

\* pub async fn set(&self, key, response)
\* an insert that keeps the entry already stored
set_step_keep_first(key, response) ==
    /\ lock.store = Free
    /\ store' = IF key \in DOMAIN store THEN store ELSE MapInsert(store, key, response)
    /\ UNCHANGED <<store_404, keys_404, cache_404_capacity, lock, historyVars>>

\* a set that empties the negative map and its FIFO as well
set_step_resetting_404(key, response) ==
    /\ lock.store = Free
    /\ store' = MapInsert(store, key, response)
    /\ store_404' = EmptyMap
    /\ keys_404' = <<>>
    /\ UNCHANGED <<cache_404_capacity, lock, historyVars>>

set_step(key, response) ==
    /\ lock.store = Free
    /\ store' = MapInsert(store, key, response)
    /\ UNCHANGED <<store_404, keys_404, cache_404_capacity, lock, historyVars>>

\* set_404: self.store_404.write().await
set_404_lock(h) ==
    /\ cache_404_capacity # 0
    /\ lock.store_404 = Free
    /\ lock' = [lock EXCEPT !.store_404 = h]
    /\ UNCHANGED <<store, store_404, keys_404, cache_404_capacity, historyVars>>

\* set_404: self.keys_404.write().await, the body, and the guards dropped
set_404_insert(h, key, response) ==
    /\ lock.store_404 = h
    /\ lock.keys_404 = Free
    /\ LET after == set_404_body(store_404, keys_404, key, response,
                                 cache_404_capacity)
       IN  /\ store_404' = after.map
           /\ keys_404' = after.keys
           /\ Remember(key, response, after.keys)
    /\ lock' = [lock EXCEPT !.store_404 = Free]
    /\ UNCHANGED <<store, cache_404_capacity>>

\* clear: self.store.write().await; store.clear()
clear_store(h) ==
    /\ lock.store = Free
    /\ lock' = [lock EXCEPT !.store = h]
    /\ store' = EmptyMap
    /\ h_pure' = FALSE
    /\ h_inserted' = <<>>
    /\ UNCHANGED <<store_404, keys_404, cache_404_capacity, h_reins>>

\* clear: self.store_404.write().await; store404.clear()
clear_store_404(h) ==
    /\ lock.store = h
    /\ lock.store_404 = Free
    /\ lock' = [lock EXCEPT !.store_404 = h]
    /\ store_404' = EmptyMap
    /\ UNCHANGED <<store, keys_404, cache_404_capacity, historyVars>>

\* clear without its last statement: the FIFO keeps its keys
clear_keys_forgotten(h) ==
    /\ lock.store = h
    /\ lock.store_404 = h
    /\ lock.keys_404 = Free
    /\ lock' = [lock EXCEPT !.store = Free, !.store_404 = Free]
    /\ UNCHANGED <<store, store_404, keys_404, cache_404_capacity, historyVars>>

\* clear: self.keys_404.write().await; keys.clear(); the guards dropped
clear_keys(h) ==
    /\ lock.store = h
    /\ lock.store_404 = h
    /\ lock.keys_404 = Free
    /\ keys_404' = <<>>
    /\ Forget(StoreKeys)
    /\ lock' = [lock EXCEPT !.store = Free, !.store_404 = Free]
    /\ UNCHANGED <<store, store_404, cache_404_capacity>>

\* clear_by_pattern: self.store.write().await; store.retain(..)
clear_by_pattern_store(h, pattern) ==
    /\ lock.store = Free
    /\ lock' = [lock EXCEPT !.store = h]
    /\ store' = MapRetainNotMatching(store, pattern)
    /\ h_pure' = FALSE
    /\ h_inserted' = <<>>
    /\ UNCHANGED <<store_404, keys_404, cache_404_capacity, h_reins>>

\* clear_by_pattern: self.store_404.write().await
clear_by_pattern_lock_404(h) ==
    /\ lock.store = h
    /\ lock.store_404 = Free
    /\ lock' = [lock EXCEPT !.store_404 = h]
    /\ UNCHANGED <<store, store_404, keys_404, cache_404_capacity, historyVars>>

\* clear_by_pattern: self.keys_404.write().await; both retains; guards dropped
clear_by_pattern_retain(h, pattern) ==
    /\ lock.store = h
    /\ lock.store_404 = h
    /\ lock.keys_404 = Free
    /\ store_404' = MapRetainNotMatching(store_404, pattern)
    /\ keys_404' = SeqRetainNotMatching(keys_404, pattern)
    /\ Forget({k \in StoreKeys : cache_matches_pattern(k, pattern)})
    /\ lock' = [lock EXCEPT !.store = Free, !.store_404 = Free]
    /\ UNCHANGED <<store, cache_404_capacity>>

\* pub async fn size(&self)
size_step == lock.store = Free

\* pub async fn size_404(&self)
size_404_step == lock.store_404 = Free

\* the value size_404 returns: store_404.len()
size_404 == Cardinality(DOMAIN store_404)

(***************************************************************************)
(* SpecStore: NumTasks tasks call the negative-cache operations and the    *)
(* two invalidations of one CacheStore concurrently, each call with any    *)
(* key, response and pattern.                                              *)
(***************************************************************************)
StoreTasks == 1..NumTasks

NoCall == [fn |-> "none", method |-> NoMethod, path |-> <<>>, pattern |-> <<>>,
           include |-> <<>>, exclude |-> <<>>]

NoOp == [name |-> "none", key |-> <<>>, response |-> <<>>, pattern |-> <<>>]

IdleTasks ==
    /\ pc = [t \in StoreTasks |-> "idle"]
    /\ op = [t \in StoreTasks |-> NoOp]
    /\ ret = [t \in StoreTasks |-> <<>>]

IdleMatcher ==
    /\ mcall = NoCall
    /\ mret = <<>>

\* CreateProxyConfig::new(proxy_url)
DefaultCapacity == 100

DefaultConfig ==
    [include_paths |-> <<>>, exclude_paths |-> <<>>, enable_websocket |-> TRUE,
     forward_get_only |-> FALSE, cache_404_capacity |-> DefaultCapacity,
     use_404_meta |-> FALSE]

NoRequest ==
    [method |-> NoMethod, path |-> <<>>, query |-> <<>>,
     headers |-> [connection |-> <<>>, upgrade |-> <<>>], should_cache |-> <<>>, cache_key |-> <<>>, body |-> "unread", cached |-> <<>>]

\* the listener awaits receiver.recv()
Listening == [pc |-> "recv", message |-> <<>>, lagged |-> FALSE]

\* no request received, no refresh message sent
\* no All message has been sent
NoStale == [handlers |-> {}, keys |-> {}]

\* no task waits for a guard of the store
NoWaiting == [store |-> <<>>, store_404 |-> <<>>, keys_404 |-> <<>>]

\* no upgrade request has been handled: no handle reserved, no task spawned
NoTunnel ==
    [pc |-> "none", client_upgrade |-> "none", backend_upgrade |-> "none",
     backend_response |-> <<>>,
     a_to_b |-> "running", b_to_a |-> "running", result |-> "none"]

\* no upgraded connection: nothing sent, nothing closed.  client_out and
\* origin_out are the bytes written by a peer and not yet read by the
\* tunnel, origin_in and client_in the bytes delivered to a peer, *_eof a
\* peer's close of its sending direction, *_shut the proxy's close of its
\* sending direction towards a peer, *_sent all a peer has written
NoWire ==
    [client_out |-> <<>>, origin_in |-> <<>>, origin_out |-> <<>>, client_in |-> <<>>,
     client_eof |-> FALSE, origin_eof |-> FALSE, client_shut |-> FALSE,
     origin_shut |-> FALSE, client_sent |-> <<>>, origin_sent |-> <<>>]

\* the control endpoint has served no request
NoControl == [authorization |-> <<>>, status |-> 0]

\* no request has arrived
IdleHandlers ==
    /\ req = [t \in StoreTasks |-> NoRequest]
    /\ client_response = [t \in StoreTasks |-> <<>>]
    /\ h_origin = [t \in StoreTasks |-> 0]
    /\ h_cache = [t \in StoreTasks |-> FALSE]
    /\ h_lookups = [t \in StoreTasks |-> <<>>]
    /\ h_stored = EmptyMap
    /\ h_stale = NoStale
    /\ auth_token = <<>>
    /\ control = NoControl
    /\ tunnel = NoTunnel
    /\ wire = NoWire
    /\ waiting = NoWaiting
    /\ n_requests = 0

\* RefreshTrigger::new: nothing has been sent
NewChannel ==
    /\ chan = <<>>
    /\ n_triggers = 0
    /\ h_sent = <<>>
    /\ h_next = 1
    /\ h_due = {}

IdleProxy ==
    /\ IdleHandlers
    /\ NewChannel
    /\ listener = Listening

InitStore ==
    /\ \E capacity \in 0..MaxCapacity : NewStore(capacity)
    /\ IdleTasks
    /\ IdleMatcher
    /\ config = DefaultConfig
    /\ IdleProxy

\* task t moves to label l with operation o and return value r
Goto(t, l, o, r) ==
    /\ pc' = [pc EXCEPT ![t] = l]
    /\ op' = [op EXCEPT ![t] = o]
    /\ ret' = [ret EXCEPT ![t] = r]

Get404(t) ==
    /\ pc[t] = "idle"
    /\ \E key \in StoreKeys :
        /\ get_404_step(key)
        /\ Goto(t, "returned", [NoOp EXCEPT !.name = "get_404", !.key = key],
                get_404(key))
    /\ UNCHANGED <<matcherVars, cacheVars, historyVars, proxyVars>>

\* set_404 with cache_404_capacity == 0 returns at once
Set404Disabled(t) ==
    /\ pc[t] = "idle"
    /\ cache_404_capacity = 0
    /\ \E key \in StoreKeys, response \in StoreResponses :
        Goto(t, "returned",
             [NoOp EXCEPT !.name = "set_404", !.key = key, !.response = response], <<>>)
    /\ UNCHANGED <<matcherVars, cacheVars, historyVars, proxyVars>>

Set404Lock(t) ==
    /\ pc[t] = "idle"
    /\ set_404_lock(t)
    /\ \E key \in StoreKeys, response \in StoreResponses :
        Goto(t, "set_404_keys",
             [NoOp EXCEPT !.name = "set_404", !.key = key, !.response = response], <<>>)
    /\ UNCHANGED <<matcherVars, proxyVars>>

Set404Insert(t) ==
    /\ pc[t] = "set_404_keys"
    /\ set_404_insert(t, op[t].key, op[t].response)
    /\ Goto(t, "returned", op[t], <<>>)
    /\ UNCHANGED <<matcherVars, proxyVars>>

ClearStore(t) ==
    /\ pc[t] = "idle"
    /\ clear_store(t)
    /\ Goto(t, "clear_404", [NoOp EXCEPT !.name = "clear"], <<>>)
    /\ UNCHANGED <<matcherVars, proxyVars>>

ClearStore404(t) ==
    /\ pc[t] = "clear_404"
    /\ clear_store_404(t)
    /\ Goto(t, "clear_keys", op[t], <<>>)
    /\ UNCHANGED <<matcherVars, proxyVars>>

ClearKeys(t) ==
    /\ pc[t] = "clear_keys"
    /\ clear_keys(t)
    /\ Goto(t, "returned", op[t], <<>>)
    /\ UNCHANGED <<matcherVars, proxyVars>>

ClearByPatternStore(t) ==
    /\ pc[t] = "idle"
    /\ \E pattern \in StorePatterns :
        /\ clear_by_pattern_store(t, pattern)
        /\ Goto(t, "clear_by_pattern_404",
                [NoOp EXCEPT !.name = "clear_by_pattern", !.pattern = pattern], <<>>)
    /\ UNCHANGED <<matcherVars, proxyVars>>

ClearByPatternLock404(t) ==
    /\ pc[t] = "clear_by_pattern_404"
    /\ clear_by_pattern_lock_404(t)
    /\ Goto(t, "clear_by_pattern_keys", op[t], <<>>)
    /\ UNCHANGED <<matcherVars, proxyVars>>

ClearByPatternRetain(t) ==
    /\ pc[t] = "clear_by_pattern_keys"
    /\ clear_by_pattern_retain(t, op[t].pattern)
    /\ Goto(t, "returned", op[t], <<>>)
    /\ UNCHANGED <<matcherVars, proxyVars>>

Size404(t) ==
    /\ pc[t] = "idle"
    /\ size_404_step
    /\ Goto(t, "returned", [NoOp EXCEPT !.name = "size_404"],
            <<size_404>>)
    /\ UNCHANGED <<matcherVars, cacheVars, historyVars, proxyVars>>

\* the caller takes the returned value and may call again
Return(t) ==
    /\ pc[t] = "returned"
    /\ Goto(t, "idle", NoOp, <<>>)
    /\ UNCHANGED <<matcherVars, cacheVars, historyVars, proxyVars>>

NextStore ==
    \E t \in StoreTasks :
        \/ Get404(t)
        \/ Set404Disabled(t)
        \/ Set404Lock(t)
        \/ Set404Insert(t)
        \/ ClearStore(t)
        \/ ClearStore404(t)
        \/ ClearKeys(t)
        \/ ClearByPatternStore(t)
        \/ ClearByPatternLock404(t)
        \/ ClearByPatternRetain(t)
        \/ Size404(t)
        \/ Return(t)

SpecStore == InitStore /\ [][NextStore]_vars

(***************************************************************************)
(* SpecInvalidate: the same tasks on a CacheStore whose positive map has   *)
(* been filled by earlier set calls.                                       *)
(***************************************************************************)
\* the positive map after set(k, response) for each k in present
StoredUnder(present) ==
    [k \in present |-> [status |-> 200, headers |-> {}, body |-> k]]

InitInvalidate ==
    /\ \E present \in SUBSET StoreKeys : store = StoredUnder(present)
    /\ store_404 = EmptyMap
    /\ keys_404 = <<>>
    /\ cache_404_capacity \in 0..MaxCapacity
    /\ lock = [store |-> Free, store_404 |-> Free, keys_404 |-> Free]
    /\ h_inserted = <<>>
    /\ h_pure = TRUE
    /\ h_reins = [k \in StoreKeys |-> NoReins]
    /\ IdleTasks
    /\ IdleMatcher
    /\ config = DefaultConfig
    /\ IdleProxy

SpecInvalidate == InitInvalidate /\ [][NextStore]_vars

(***************************************************************************)
(* SpecMatcher: the functions of path_matcher.rs applied to bounded inputs *)
(***************************************************************************)
PathAlphabet == {"/", "a"}
GlobAlphabet == {"/", "a", STAR}

SeqsUpTo(S, n) == UNION {[1..k -> S] : k \in 0..n}

\* paths that read like patterns, besides the paths over PathAlphabet
ExtraPaths == {GET, GET \o <<SP, "/", "a">>, POST \o <<SP, "/", "a">>}

Paths == SeqsUpTo(PathAlphabet, MaxPathLen) \cup ExtraPaths

Globs == SeqsUpTo(GlobAlphabet, MaxGlobLen)

\* patterns: optional whitespace, optional method token, optional separator,
\* a glob, optional whitespace; and one pattern with two method tokens
Patterns ==
    {pre \o tok \o sep \o g \o post :
        pre \in {<<>>, <<SP>>}, tok \in {<<>>, GET, POST},
        sep \in {<<>>, <<SP>>, <<TAB>>}, g \in Globs, post \in {<<>>, <<SP>>}}
    \cup {GET \o <<SP>> \o POST \o <<SP, "/", "a">>}

RequestMethods == {GET, POST, PUT}

\* the include and exclude lists are drawn from these patterns
PolicyPatterns ==
    {<<"/", "a", STAR>>, <<STAR>>, POST \o <<SP, STAR>>, GET \o <<SP, "/", "a">>}

PolicyLists == SeqsUpTo(PolicyPatterns, MaxListLen)

PolicyPaths == SeqsUpTo(PathAlphabet, 2)

\* cache keys and invalidation patterns: those of the store and the strings
\* the path matcher is applied to
CacheKeys == StoreKeys \cup Paths

CachePatterns == StorePatterns \cup Globs

InitMatcher ==
    /\ \/ \E x \in Paths, p \in Patterns :
             mcall = [NoCall EXCEPT !.fn = "matches_pattern", !.path = x, !.pattern = p]
       \/ \E m \in RequestMethods, x \in Paths, p \in Patterns :
             mcall = [NoCall EXCEPT !.fn = "matches_pattern_with_method", !.method = m,
                                    !.path = x, !.pattern = p]
       \/ \E m \in {GET, POST}, x \in PolicyPaths, inc \in PolicyLists, exc \in PolicyLists :
             mcall = [NoCall EXCEPT !.fn = "should_cache_path", !.method = m, !.path = x,
                                    !.include = inc, !.exclude = exc]
       \/ \E key \in CacheKeys, p \in CachePatterns :
             mcall = [NoCall EXCEPT !.fn = "cache_matches_pattern", !.path = key,
                                    !.pattern = p]
    /\ mret = <<>>
    /\ NewStore(0)
    /\ IdleTasks
    /\ config = DefaultConfig
    /\ IdleProxy

MatchesPattern ==
    /\ mcall.fn = "matches_pattern"
    /\ mret = <<>>
    /\ mret' = <<matches_pattern(mcall.path, mcall.pattern)>>
    /\ UNCHANGED <<mcall, cacheVars, taskVars, historyVars, proxyVars>>

MatchesPatternWithMethod ==
    /\ mcall.fn = "matches_pattern_with_method"
    /\ mret = <<>>
    /\ mret' = <<matches_pattern_with_method(mcall.method, mcall.path, mcall.pattern)>>
    /\ UNCHANGED <<mcall, cacheVars, taskVars, historyVars, proxyVars>>

ShouldCachePath ==
    /\ mcall.fn = "should_cache_path"
    /\ mret = <<>>
    /\ mret' = <<should_cache_path(mcall.method, mcall.path, mcall.include,
                                  mcall.exclude)>>
    /\ UNCHANGED <<mcall, cacheVars, taskVars, historyVars, proxyVars>>

\* cache.rs: matches_pattern(key, pattern)
CacheMatchesPattern ==
    /\ mcall.fn = "cache_matches_pattern"
    /\ mret = <<>>
    /\ mret' = <<cache_matches_pattern(mcall.path, mcall.pattern)>>
    /\ UNCHANGED <<mcall, cacheVars, taskVars, historyVars, proxyVars>>

NextMatcher ==
    \/ MatchesPattern
    \/ MatchesPatternWithMethod
    \/ ShouldCachePath
    \/ CacheMatchesPattern

SpecMatcher == InitMatcher /\ [][NextMatcher]_vars

(***************************************************************************)
(* proxy.rs: the conversions of the handler.  Header lists are sequences   *)
(* of [name, value, text]; text says whether HeaderValue::to_str succeeds. *)
(***************************************************************************)
Uppercase == <<"A", "C", "G", "K", "O", "P", "S", "T", "U">>
Lowercase == <<"a", "c", "g", "k", "o", "p", "s", "t", "u">>

\* str::to_lowercase
to_lowercase(s) ==
    [i \in DOMAIN s |->
        IF \E j \in DOMAIN Uppercase : Uppercase[j] = s[i]
        THEN Lowercase[CHOOSE j \in DOMAIN Uppercase : Uppercase[j] = s[i]]
        ELSE s[i]]

\* fn is_upgrade_request(headers): headers holds the values of the Connection
\* header lines of the request, in order, and the values of its Upgrade
\* header lines; headers.get(CONNECTION) is the first Connection value
is_upgrade_request(headers) ==
    \/ /\ headers.connection # <<>>
       /\ Find(to_lowercase(headers.connection[1]),
               <<"u", "p", "g", "r", "a", "d", "e">>) # NotFound
    \/ headers.upgrade # <<>>

\* fn convert_headers_to_map(headers): later values replace earlier ones,
\* values that are not text are left out
RECURSIVE convert_headers_to_map(_)
convert_headers_to_map(headers) ==
    IF headers = <<>> THEN EmptyMap
    ELSE LET n == Len(headers)
             before == convert_headers_to_map(SubSeq(headers, 1, n - 1))
         IN  IF headers[n].text
             THEN MapInsert(before, headers[n].name, headers[n].value)
             ELSE before

\* key.parse::<HeaderName>() succeeds
IsHeaderName(name) == name # ""

\* fn build_response_from_cache(cached)
build_response_from_cache(cached) ==
    [status |-> cached.status,
     headers |-> [name \in {k \in DOMAIN cached.headers : IsHeaderName(k)} |->
                      cached.headers[name]],
     body |-> cached.body]

\* the response axum makes of Err(StatusCode)
status_response(code) == [status |-> code, headers |-> EmptyMap, body |-> <<>>]

\* no method is turned away
rejects_method_never(forward_get_only, method) == FALSE

\* if state.config.forward_get_only && method != axum::http::Method::GET
rejects_method(forward_get_only, method) == forward_get_only /\ method # GET

\* the cache lookup made whatever the policy says
after_policy_always_get(should_cache) == "cache_get"

\* if should_cache { cache.get(..) } else { proxy directly }
after_policy(should_cache) == IF should_cache THEN "cache_get" ELSE "read_body"

\* if should_cache { cache.set(..) }; Ok(..)
after_fetch(should_cache) == IF should_cache THEN "cache_set" ELSE "returned"

(***************************************************************************)
(* Spec: the proxy create_proxy builds.  Handler tasks run proxy_handler   *)
(* on requests from a small set, the origin answers with any reply or      *)
(* fails, refresh messages are sent at any time, and the listener task     *)
(* applies them to the store.                                              *)
(***************************************************************************)
MaxRequests == 3
MaxTriggers == 1

\* broadcast::channel(16)
ChannelCapacity == 16

Handlers == StoreTasks

\* the listener's identity as a holder of write guards
Listener == NumTasks + 1

PlainHeaders ==
    [connection |-> << <<"k", "e", "e", "p", "-", "a", "l", "i", "v", "e">> >>,
     upgrade |-> <<>>]

\* Connection: keep-alive, UpGrade  (no Upgrade header)
ConnectionUpgradeHeaders ==
    [connection |-> << <<"k", "e", "e", "p", "-", "a", "l", "i", "v", "e", ",", SP,
                         "U", "p", "G", "r", "a", "d", "e">> >>,
     upgrade |-> <<>>]

\* Connection: keep-alive and Connection: Upgrade, on two header lines
SplitConnectionHeaders ==
    [connection |-> << <<"k", "e", "e", "p", "-", "a", "l", "i", "v", "e">>,
                       <<"U", "p", "g", "r", "a", "d", "e">> >>,
     upgrade |-> <<>>]

\* Upgrade: websocket  (no Connection header)
UpgradeHeaders ==
    [connection |-> <<>>,
     upgrade |-> << <<"w", "e", "b", "s", "o", "c", "k", "e", "t">> >>]

Requests ==
    {[method |-> GET, path |-> x, query |-> <<>>, headers |-> PlainHeaders] :
        x \in {<<"/", "a">>, <<"/", "b">>}}
    \cup {[method |-> POST, path |-> <<"/", "a">>, query |-> <<>>,
            headers |-> PlainHeaders],
          [method |-> POST, path |-> <<"/", "b">>, query |-> <<>>,
            headers |-> SplitConnectionHeaders],
          [method |-> GET, path |-> <<"/", "a">>, query |-> <<>>,
            headers |-> ConnectionUpgradeHeaders],
          [method |-> POST, path |-> <<"/", "a">>, query |-> <<>>,
            headers |-> UpgradeHeaders]}

\* enable_websocket decides on upgrade requests only and forward_get_only on
\* the others only, so the two are varied together, but for one
\* configuration that sets both
ProxyConfigs ==
    {[DefaultConfig EXCEPT !.include_paths = inc, !.exclude_paths = exc,
                           !.enable_websocket = ws, !.forward_get_only = ~ws] :
        inc \in {<<>>, << <<"/", "a">> >>},
        exc \in {<<>>, << POST \o <<SP, "/", STAR>> >>},
        ws \in BOOLEAN}
    \cup {[DefaultConfig EXCEPT !.forward_get_only = TRUE]}

\* what the origin may answer
OriginReplies ==
    {[status |-> 200,
      headers |-> <<[name |-> "content-type", value |-> "text/plain", text |-> TRUE]>>,
      body |-> <<1>>],
     [status |-> 404,
      headers |-> <<[name |-> "etag", value |-> "1", text |-> TRUE],
                    [name |-> "x-trace", value |-> "", text |-> FALSE],
                    [name |-> "etag", value |-> "2", text |-> TRUE]>>,
      body |-> <<2>>]}

RefreshAll == [kind |-> "All", pattern |-> <<>>]

RefreshPattern(pattern) == [kind |-> "Pattern", pattern |-> pattern]

\* create_proxy(config)
Init ==
    /\ \E c \in ProxyConfigs :
        /\ config = c
        /\ NewStore(c.cache_404_capacity)
    /\ IdleTasks
    /\ IdleMatcher
    /\ IdleProxy

\* what no handler step changes
handlerFrame == <<matcherVars, op, ret, config, chan, listener, n_triggers, triggerHistory,
                  auth_token, control, tunnel, wire,
          waiting>>

\* handler t moves to label l with locals r and response out
Step(t, l, r, out) ==
    /\ pc' = [pc EXCEPT ![t] = l]
    /\ req' = [req EXCEPT ![t] = r]
    /\ client_response' = [client_response EXCEPT ![t] = out]

\* a request arrives at an idle handler
Arrives(t) ==
    /\ pc[t] = "idle"
    /\ n_requests < MaxRequests
    /\ n_requests' = n_requests + 1

\* the locals of proxy_handler on request r, before the policy check
Received(r) ==
    [NoRequest EXCEPT !.method = r.method, !.path = r.path, !.query = r.query,
                      !.headers = r.headers]

\* if is_upgrade && !enable_websocket: Err(NOT_IMPLEMENTED)
RejectUpgrade(t) ==
    /\ Arrives(t)
    /\ \E r \in Requests :
        /\ is_upgrade_request(r.headers)
        /\ ~config.enable_websocket
        /\ Step(t, "returned", Received(r), <<status_response(501)>>)
    /\ UNCHANGED <<handlerFrame, h_lookups, cacheVars, historyVars, h_origin, h_cache, h_stored, h_stale>>

\* if is_upgrade && enable_websocket: handle_upgrade_request(state, req).await
AcceptUpgrade(t) ==
    /\ Arrives(t)
    /\ \E r \in Requests :
        /\ is_upgrade_request(r.headers)
        /\ config.enable_websocket
        /\ Step(t, "upgrade", Received(r), <<>>)
    /\ UNCHANGED <<handlerFrame, h_lookups, cacheVars, historyVars, h_origin, h_cache, h_stored, h_stale>>

\* handle_upgrade_request: the backend is unreachable, answers without
\* switching protocols (its response is passed on), or switches
Tunnel(t) ==
    /\ pc[t] = "upgrade"
    /\ h_origin' = [h_origin EXCEPT ![t] = h_origin[t] + 1]
    /\ \/ Step(t, "returned", req[t], <<status_response(502)>>)
       \/ \E reply \in OriginReplies : Step(t, "returned", req[t], <<reply>>)
       \/ Step(t, "returned", req[t], <<status_response(101)>>)
    /\ UNCHANGED <<handlerFrame, h_lookups, cacheVars, historyVars, h_cache, h_stored, h_stale, n_requests>>

\* if forward_get_only && method != GET: Err(METHOD_NOT_ALLOWED)
RejectMethod(t) ==
    /\ Arrives(t)
    /\ \E r \in Requests :
        /\ ~is_upgrade_request(r.headers)
        /\ rejects_method(config.forward_get_only, r.method)
        /\ Step(t, "returned", Received(r), <<status_response(405)>>)
    /\ UNCHANGED <<handlerFrame, h_lookups, cacheVars, historyVars, h_origin, h_cache, h_stored, h_stale>>

\* should_cache and cache_key are computed; the handler goes on to the cache
\* lookup or straight to the origin fetch
Classify(t) ==
    /\ Arrives(t)
    /\ \E r \in Requests :
        /\ ~is_upgrade_request(r.headers)
        /\ ~rejects_method(config.forward_get_only, r.method)
        /\ LET should_cache == should_cache_path(r.method, r.path, config.include_paths,
                                                 config.exclude_paths)
               cache_key == default_cache_key(r.method, r.path, r.query)
           IN  Step(t, after_policy(should_cache),
                    [Received(r) EXCEPT !.should_cache = <<should_cache>>,
                                        !.cache_key = cache_key],
                    <<>>)
    /\ UNCHANGED <<handlerFrame, h_lookups, cacheVars, historyVars, h_origin, h_cache, h_stored, h_stale>>

\* if let Some(cached) = state.cache.get(&cache_key).await
CacheGet(t) ==
    /\ pc[t] = "cache_get"
    /\ get_step(req[t].cache_key)
    /\ h_cache' = [h_cache EXCEPT ![t] = TRUE]
    /\ h_lookups' = [h_lookups EXCEPT ![t] = Append(h_lookups[t], "store")]
    /\ LET cached == MapGet(store, req[t].cache_key)
       IN  IF cached # <<>>
           THEN Step(t, "returned", req[t], <<build_response_from_cache(cached[1])>>)
           ELSE Step(t, "read_body", req[t], <<>>)
    /\ UNCHANGED <<handlerFrame, cacheVars, historyVars, h_origin, h_stored, h_stale, n_requests>>

\* axum::body::to_bytes(req.into_body(), usize::MAX).await
ReadBody(t) ==
    /\ pc[t] = "read_body"
    /\ \E ok \in BOOLEAN :
        IF ok
        THEN Step(t, "send", [req[t] EXCEPT !.body = "read"], <<>>)
        ELSE Step(t, "returned", [req[t] EXCEPT !.body = "failed"],
                  <<status_response(400)>>)
    /\ UNCHANGED <<handlerFrame, h_lookups, cacheVars, historyVars, h_origin, h_cache, h_stored, h_stale,
                   n_requests>>

\* a send that is tried again when it fails
SendRetrying(t) ==
    /\ pc[t] = "send"
    /\ h_origin' = [h_origin EXCEPT ![t] = h_origin[t] + 1]
    /\ \E ok \in BOOLEAN :
        IF ok
        THEN Step(t, "response_body", req[t], <<>>)
        ELSE Step(t, "send", req[t], <<>>)
    /\ UNCHANGED <<handlerFrame, h_lookups, cacheVars, historyVars, h_cache, h_stored, h_stale, n_requests>>

\* client.request(..).send().await
Send(t) ==
    /\ pc[t] = "send"
    /\ h_origin' = [h_origin EXCEPT ![t] = h_origin[t] + 1]
    /\ \E ok \in BOOLEAN :
        IF ok
        THEN Step(t, "response_body", req[t], <<>>)
        ELSE Step(t, "returned", req[t], <<status_response(502)>>)
    /\ UNCHANGED <<handlerFrame, h_lookups, cacheVars, historyVars, h_cache, h_stored, h_stale, n_requests>>

\* response.bytes().await, and the CachedResponse built from the reply
ResponseBody(t) ==
    /\ pc[t] = "response_body"
    /\ \/ Step(t, "returned", req[t], <<status_response(502)>>)
       \/ \E reply \in OriginReplies :
            LET cached_response ==
                    [body |-> reply.body,
                     headers |-> convert_headers_to_map(reply.headers),
                     status |-> reply.status]
                next == after_fetch(req[t].should_cache[1])
            IN  Step(t, next, [req[t] EXCEPT !.cached = <<cached_response>>],
                     IF next = "returned"
                     THEN <<build_response_from_cache(cached_response)>>
                     ELSE <<>>)
    /\ UNCHANGED <<handlerFrame, h_lookups, cacheVars, historyVars, h_origin, h_cache, h_stored, h_stale,
                   n_requests>>

\* history of handler t storing under key: the entry is as old as the
\* response t holds
Inserted(t, key) ==
    [handlers |-> h_stale.handlers \ {t},
     keys |-> IF t \in h_stale.handlers THEN h_stale.keys \cup {key}
              ELSE h_stale.keys \ {key}]

\* state.cache.set(cache_key.clone(), cached_response.clone()).await; Ok(..)
CacheSet(t) ==
    /\ pc[t] = "cache_set"
    /\ set_step(req[t].cache_key, req[t].cached[1])
    /\ h_cache' = [h_cache EXCEPT ![t] = TRUE]
    /\ Step(t, "returned", req[t], <<build_response_from_cache(req[t].cached[1])>>)
    /\ h_stored' = MapInsert(h_stored, req[t].cache_key, client_response'[t][1])
    /\ h_stale' = Inserted(t, req[t].cache_key)
    /\ UNCHANGED <<handlerFrame, h_lookups, h_origin, n_requests>>

\* the .await points of proxy_handler after the upgrade check
SuspensionPoints == {"cache_get", "read_body", "send", "response_body", "cache_set"}

\* a drop that lets a pending insert take effect
CancelAfterSet(t) ==
    /\ pc[t] \in SuspensionPoints
    /\ Step(t, "dropped",
            [NoRequest EXCEPT !.cache_key = req[t].cache_key, !.body = pc[t]], <<>>)
    /\ h_origin' = [h_origin EXCEPT ![t] = 0]
    /\ h_cache' = [h_cache EXCEPT ![t] = FALSE]
    /\ h_lookups' = [h_lookups EXCEPT ![t] = <<>>]
    /\ IF pc[t] = "cache_set"
       THEN set_step(req[t].cache_key, req[t].cached[1])
       ELSE UNCHANGED <<cacheVars, historyVars>>
    /\ h_stale' = [h_stale EXCEPT !.handlers = @ \ {t}]
    /\ UNCHANGED <<handlerFrame, h_stored, n_requests>>

\* the handler's future is dropped at an .await (the client went away): the
\* rest of proxy_handler never runs and its locals are gone; what is kept
\* of the request is its key and, as body, the .await it was dropped at
Cancel(t) ==
    /\ pc[t] \in SuspensionPoints
    /\ Step(t, "dropped",
            [NoRequest EXCEPT !.cache_key = req[t].cache_key, !.body = pc[t]], <<>>)
    /\ h_origin' = [h_origin EXCEPT ![t] = 0]
    /\ h_cache' = [h_cache EXCEPT ![t] = FALSE]
    /\ h_lookups' = [h_lookups EXCEPT ![t] = <<>>]
    /\ h_stale' = [h_stale EXCEPT !.handlers = @ \ {t}]
    /\ UNCHANGED <<handlerFrame, cacheVars, historyVars, h_stored, n_requests>>

\* the response is sent, or the task was dropped; the handler task ends and
\* another may start
Respond(t) ==
    /\ pc[t] \in {"returned", "dropped"}
    /\ Step(t, "idle", NoRequest, <<>>)
    /\ h_origin' = [h_origin EXCEPT ![t] = 0]
    /\ h_cache' = [h_cache EXCEPT ![t] = FALSE]
    /\ h_lookups' = [h_lookups EXCEPT ![t] = <<>>]
    /\ UNCHANGED <<handlerFrame, cacheVars, historyVars, h_stored, h_stale, n_requests>>

\* what neither a trigger nor the listener changes
listenerFrame == <<matcherVars, taskVars, config, req, client_response, h_origin,
                   h_cache, h_lookups, n_requests, auth_token, control, tunnel, wire,
          waiting>>

\* broadcast::Sender::send: an error (no receiver) is ignored; a full channel
\* drops its oldest message and the receiver will find itself lagged
send_buffered(message) ==
    IF Len(chan) < ChannelCapacity
    THEN chan' = Append(chan, message) /\ UNCHANGED listener
    ELSE /\ chan' = Append(Tail(chan), message)
         /\ listener' = [listener EXCEPT !.lagged = TRUE]

send(message) ==
    IF listener.pc \in {"unsubscribed", "stopped"}
    THEN UNCHANGED <<chan, listener>>
    ELSE IF Len(chan) < ChannelCapacity
    THEN chan' = Append(chan, message) /\ UNCHANGED listener
    ELSE /\ chan' = Append(Tail(chan), message)
         /\ listener' = [listener EXCEPT !.lagged = TRUE]

\* history of a message sent: when an All message reaches the listener's
\* channel, the responses handlers have read and not yet stored are older
\* than the message (and so are the entries stored, which the clear removes)
Mark(message) ==
    h_stale' = IF message.kind = "All" /\ listener.pc \notin {"unsubscribed", "stopped"}
               THEN [h_stale EXCEPT !.handlers = @ \cup {t \in StoreTasks : pc[t] = "cache_set"}]
               ELSE h_stale

\* RefreshTrigger::trigger
Trigger ==
    /\ n_triggers < MaxTriggers
    /\ n_triggers' = n_triggers + 1
    /\ send(RefreshAll)
    /\ UNCHANGED <<listenerFrame, cacheVars, historyVars, h_stored, h_stale, triggerHistory>>

\* RefreshTrigger::trigger_by_key_match
TriggerByKeyMatch ==
    /\ n_triggers < MaxTriggers
    /\ n_triggers' = n_triggers + 1
    /\ \E pattern \in StorePatterns : send(RefreshPattern(pattern))
    /\ UNCHANGED <<listenerFrame, cacheVars, historyVars, h_stored, h_stale, triggerHistory>>

\* the listener moves to label l, holding message m
Listen(l, m) == listener' = [listener EXCEPT !.pc = l, !.message = m]

\* match receiver.recv().await: a message, or an error that ends the loop
\* a receive that leaves the message in the channel
ListenerRecvPeek ==
    /\ listener.pc = "recv"
    /\ chan # <<>>
    /\ h_next' = h_next + 1
    /\ Listen(IF Head(chan).kind = "All" THEN "clear" ELSE "clear_by_pattern",
              <<Head(chan)>>)
    /\ UNCHANGED <<listenerFrame, cacheVars, historyVars, h_stored, h_stale, n_triggers, h_sent, h_due,
                   chan>>

\* receiver.recv().await: Ok(message) dispatches, Err(_) breaks the loop
ListenerRecv ==
    /\ listener.pc = "recv"
    /\ IF listener.lagged
       THEN /\ listener' = [Listening EXCEPT !.pc = "stopped"]
            /\ UNCHANGED <<chan, h_next>>
       ELSE /\ chan # <<>>
            /\ chan' = Tail(chan)
            /\ h_next' = h_next + 1
            /\ Listen(IF Head(chan).kind = "All" THEN "clear" ELSE "clear_by_pattern",
                      <<Head(chan)>>)
    /\ UNCHANGED <<listenerFrame, cacheVars, historyVars, h_stored, h_stale, n_triggers, h_sent, h_due>>

\* cache.clear().await, up to store.clear()
ListenerClearStore ==
    /\ listener.pc = "clear"
    /\ clear_store(Listener)
    /\ h_stored' = EmptyMap
    /\ h_stale' = [h_stale EXCEPT !.keys = {}]
    /\ h_due' = {}
    /\ Listen("clear_404", listener.message)
    /\ UNCHANGED <<listenerFrame, chan, n_triggers, h_sent, h_next>>

ListenerClearStore404 ==
    /\ listener.pc = "clear_404"
    /\ clear_store_404(Listener)
    /\ Listen("clear_keys", listener.message)
    /\ UNCHANGED <<listenerFrame, chan, h_stored, h_stale, n_triggers, triggerHistory>>

ListenerClearKeys ==
    /\ listener.pc = "clear_keys"
    /\ clear_keys(Listener)
    /\ Listen("recv", <<>>)
    /\ UNCHANGED <<listenerFrame, chan, h_stored, h_stale, n_triggers, triggerHistory>>

\* cache.clear_by_pattern(&pattern).await, up to store.retain(..)
ListenerClearByPatternStore ==
    /\ listener.pc = "clear_by_pattern"
    /\ clear_by_pattern_store(Listener, listener.message[1].pattern)
    /\ h_stored' = MapRetainNotMatching(h_stored, listener.message[1].pattern)
    /\ h_stale' = [h_stale EXCEPT !.keys = @ \cap DOMAIN store']
    /\ h_due' = h_due \cap DOMAIN store'
    /\ Listen("clear_by_pattern_404", listener.message)
    /\ UNCHANGED <<listenerFrame, chan, n_triggers, h_sent, h_next>>

ListenerClearByPatternLock404 ==
    /\ listener.pc = "clear_by_pattern_404"
    /\ clear_by_pattern_lock_404(Listener)
    /\ Listen("clear_by_pattern_keys", listener.message)
    /\ UNCHANGED <<listenerFrame, chan, h_stored, h_stale, n_triggers, triggerHistory>>

ListenerClearByPatternRetain ==
    /\ listener.pc = "clear_by_pattern_keys"
    /\ clear_by_pattern_retain(Listener, listener.message[1].pattern)
    /\ Listen("recv", <<>>)
    /\ UNCHANGED <<listenerFrame, chan, h_stored, h_stale, n_triggers, triggerHistory>>

Next ==
    \/ \E t \in Handlers :
        \/ RejectUpgrade(t)
        \/ AcceptUpgrade(t)
        \/ Tunnel(t)
        \/ RejectMethod(t)
        \/ Classify(t)
        \/ CacheGet(t)
        \/ ReadBody(t)
        \/ Send(t)
        \/ ResponseBody(t)
        \/ CacheSet(t)
        \/ Respond(t)
    \/ Trigger
    \/ TriggerByKeyMatch
    \/ ListenerRecv
    \/ ListenerClearStore
    \/ ListenerClearStore404
    \/ ListenerClearKeys
    \/ ListenerClearByPatternStore
    \/ ListenerClearByPatternLock404
    \/ ListenerClearByPatternRetain

Spec == Init /\ [][Next]_vars

\* ---------------------------------------------------------------------------
\* SpecCancel: the proxy of CreateProxyConfig::new (nothing is rejected), with
\* request tasks that may be dropped at any .await of proxy_handler.
\* ---------------------------------------------------------------------------
InitCancel ==
    /\ config = DefaultConfig
    /\ NewStore(DefaultCapacity)
    /\ IdleTasks
    /\ IdleMatcher
    /\ IdleProxy

NextCancel ==
    \/ \E t \in Handlers :
        \/ AcceptUpgrade(t)
        \/ Tunnel(t)
        \/ Classify(t)
        \/ CacheGet(t)
        \/ ReadBody(t)
        \/ Send(t)
        \/ ResponseBody(t)
        \/ CacheSet(t)
        \/ Cancel(t)
        \/ Respond(t)
    \/ Trigger
    \/ TriggerByKeyMatch
    \/ ListenerRecv
    \/ ListenerClearStore
    \/ ListenerClearStore404
    \/ ListenerClearKeys
    \/ ListenerClearByPatternStore
    \/ ListenerClearByPatternLock404
    \/ ListenerClearByPatternRetain

SpecCancel == InitCancel /\ [][NextCancel]_vars

\* ---------------------------------------------------------------------------
\* SpecTunnel: handle_upgrade_request step by step for one upgrade request
\* (Tunnel above is its summary), the task it spawns, and a client and an
\* origin that write to and close the upgraded connection.
\* ---------------------------------------------------------------------------
MaxBytes == 2

Bytes == {1, 2}

\* what the origin's 101 reply may carry
SwitchingReplies ==
    {[status |-> 101,
      headers |-> <<[name |-> "upgrade", value |-> "websocket", text |-> TRUE],
                    [name |-> "connection", value |-> "Upgrade", text |-> TRUE],
                    last>>,
      body |-> <<>>] :
        last \in {[name |-> "sec-websocket-accept", value |-> "1", text |-> TRUE],
                  [name |-> "sec-websocket-protocol", value |-> "2", text |-> TRUE]}}

\* the 101 response built for the client: Upgrade, Connection and
\* Sec-WebSocket-Accept are copied from the origin's reply
switching_response(backend_headers) ==
    LET Copied(line) == line.name \in {"upgrade", "connection", "sec-websocket-accept"}
    IN  [status |-> 101, headers |-> SelectSeq(backend_headers, Copied), body |-> <<>>]

\* what no step of an upgrade, of the tunnel or of a peer changes
tunnelFrame == <<matcherVars, cacheVars, historyVars, op, ret, config, chan, listener,
                 n_triggers, triggerHistory, auth_token, control, h_stored, h_stale, h_cache,
                 h_lookups, waiting>>

\* a proxy that has served requests, with upgrades enabled
InitTunnel ==
    /\ \E present \in {{}, StoreKeys} : store = StoredUnder(present)
    /\ store_404 = EmptyMap
    /\ keys_404 = <<>>
    /\ cache_404_capacity = DefaultCapacity
    /\ lock = [store |-> Free, store_404 |-> Free, keys_404 |-> Free]
    /\ h_inserted = <<>>
    /\ h_pure = TRUE
    /\ h_reins = [k \in StoreKeys |-> NoReins]
    /\ IdleTasks
    /\ IdleMatcher
    /\ config = DefaultConfig
    /\ IdleProxy

\* the one upgrade request arrives
TunnelRequest(t) ==
    /\ n_requests = 0
    /\ AcceptUpgrade(t)

\* a handler that contacts the origin with no handle on the client's stream
UpgradeParseUnreserved(t) ==
    /\ pc[t] = "upgrade"
    /\ \/ Step(t, "returned", req[t], <<status_response(502)>>)
       \/ Step(t, "connect", req[t], <<>>)
    /\ UNCHANGED <<tunnelFrame, h_origin, n_requests, wire, tunnel>>

\* the backend URL is parsed (a failure gives 502), then
\* hyper::upgrade::on(&mut req) reserves the client's upgrade handle
UpgradeParse(t) ==
    /\ pc[t] = "upgrade"
    /\ \/ /\ Step(t, "returned", req[t], <<status_response(502)>>)
          /\ UNCHANGED tunnel
       \/ /\ Step(t, "connect", req[t], <<>>)
          /\ tunnel' = [tunnel EXCEPT !.client_upgrade = "pending"]
    /\ UNCHANGED <<tunnelFrame, h_origin, n_requests, wire>>

\* a handler that returns early drops the client's upgrade handle
EarlyReturn(t, out) ==
    /\ Step(t, "returned", req[t], <<out>>)
    /\ tunnel' = [tunnel EXCEPT !.client_upgrade = "none"]

\* TcpStream::connect((host, port)).await
UpgradeConnect(t) ==
    /\ pc[t] = "connect"
    /\ \/ EarlyReturn(t, status_response(502))
       \/ Step(t, "handshake", req[t], <<>>) /\ UNCHANGED tunnel
    /\ UNCHANGED <<tunnelFrame, h_origin, n_requests, wire>>

\* hyper::client::conn::http1::handshake(backend_io).await, and the task
\* polling the connection is spawned
UpgradeHandshake(t) ==
    /\ pc[t] = "handshake"
    /\ \/ EarlyReturn(t, status_response(502))
       \/ Step(t, "send_request", req[t], <<>>) /\ UNCHANGED tunnel
    /\ UNCHANGED <<tunnelFrame, h_origin, n_requests, wire>>

\* if backend_response.status() != SWITCHING_PROTOCOLS:
\* return Ok(Response::from_parts(parts, body))
Replied(t, reply) ==
    /\ Step(t, "returned", req[t], <<reply>>)
    /\ tunnel' = [tunnel EXCEPT !.client_upgrade = "none", !.backend_response = <<reply>>]

\* the backend's upgrade handle is taken, the tunnel task is spawned and the
\* 101 response is built from the reply's headers
Switched(t, reply) ==
    /\ Step(t, "returned", req[t], <<switching_response(reply.headers)>>)
    /\ tunnel' = [tunnel EXCEPT !.pc = "join", !.backend_upgrade = "pending",
                                !.backend_response = <<reply>>]

\* a handler that stores the reply of an origin that did not switch
UpgradeSendRequestStoring(t) ==
    /\ pc[t] = "send_request"
    /\ h_origin' = [h_origin EXCEPT ![t] = h_origin[t] + 1]
    /\ \/ EarlyReturn(t, status_response(502)) /\ UNCHANGED <<cacheVars, historyVars>>
       \/ \E reply \in OriginReplies :
            /\ Replied(t, reply)
            /\ set_step(default_cache_key(req[t].method, req[t].path, req[t].query),
                        [status |-> reply.status, headers |-> EmptyMap, body |-> reply.body])
       \/ \E reply \in SwitchingReplies :
            /\ Switched(t, reply)
            /\ UNCHANGED <<cacheVars, historyVars>>
    /\ UNCHANGED <<matcherVars, op, ret, config, chan, listener, n_triggers, triggerHistory,
                   auth_token, control, h_stored, h_stale, h_cache, h_lookups, n_requests, wire,
                   waiting>>

\* sender.send_request(req).await: an error gives 502; a reply that is not
\* 101 is returned as it is; on 101 the backend's upgrade handle is taken,
\* the tunnel task is spawned and the 101 response is returned
UpgradeSendRequest(t) ==
    /\ pc[t] = "send_request"
    /\ h_origin' = [h_origin EXCEPT ![t] = h_origin[t] + 1]
    /\ \/ EarlyReturn(t, status_response(502))
       \/ \E reply \in OriginReplies : Replied(t, reply)
       \/ \E reply \in SwitchingReplies : Switched(t, reply)
    /\ UNCHANGED <<tunnelFrame, n_requests, wire>>

\* what only the tunnel task changes
peerFrame == <<tunnelFrame, taskVars, req, client_response, h_origin, n_requests>>

\* the server connection has written the 101 response: the client's handle
\* resolves, to the upgraded stream or to an error
ClientUpgradeResolves ==
    /\ tunnel.pc = "join"
    /\ tunnel.client_upgrade = "pending"
    /\ \E result \in {"ok", "failed"} :
            tunnel' = [tunnel EXCEPT !.client_upgrade = result]
    /\ UNCHANGED <<peerFrame, wire>>

\* conn.with_upgrades() completes: the backend's handle resolves
BackendUpgradeResolves ==
    /\ tunnel.pc = "join"
    /\ tunnel.backend_upgrade = "pending"
    /\ \E result \in {"ok", "failed"} :
            tunnel' = [tunnel EXCEPT !.backend_upgrade = result]
    /\ UNCHANGED <<peerFrame, wire>>

\* the streams the task owns are dropped: both connections are closed
Dropped(w) == [w EXCEPT !.client_shut = TRUE, !.origin_shut = TRUE]

\* tokio::join!(client_upgrade, backend_upgrade) returns; both Ok starts the
\* copy, otherwise the task logs and ends
TunnelJoin ==
    /\ tunnel.pc = "join"
    /\ tunnel.client_upgrade \in {"ok", "failed"}
    /\ tunnel.backend_upgrade \in {"ok", "failed"}
    /\ IF tunnel.client_upgrade = "ok" /\ tunnel.backend_upgrade = "ok"
       THEN /\ tunnel' = [tunnel EXCEPT !.pc = "copy"]
            /\ UNCHANGED wire
       ELSE /\ tunnel' = [tunnel EXCEPT !.pc = "done", !.result = "upgrade_failed"]
            /\ wire' = Dropped(wire)
    /\ UNCHANGED peerFrame

\* the client writes a byte to the connection it was told is upgraded
ClientSends ==
    /\ tunnel.pc \in {"join", "copy"}
    /\ ~wire.client_eof
    /\ Len(wire.client_sent) < MaxBytes
    /\ \E b \in Bytes :
            wire' = [wire EXCEPT !.client_out = Append(@, b), !.client_sent = Append(@, b)]
    /\ UNCHANGED <<peerFrame, tunnel>>

\* the origin writes a byte after its 101 reply
OriginSends ==
    /\ tunnel.pc \in {"join", "copy"}
    /\ ~wire.origin_eof
    /\ Len(wire.origin_sent) < MaxBytes
    /\ \E b \in Bytes :
            wire' = [wire EXCEPT !.origin_out = Append(@, b), !.origin_sent = Append(@, b)]
    /\ UNCHANGED <<peerFrame, tunnel>>

\* the client closes: the tunnel will read end of file after what was sent
ClientCloses ==
    /\ tunnel.pc # "none"
    /\ ~wire.client_eof
    /\ wire' = [wire EXCEPT !.client_eof = TRUE]
    /\ UNCHANGED <<peerFrame, tunnel>>

\* the origin closes
OriginCloses ==
    /\ tunnel.pc # "none"
    /\ ~wire.origin_eof
    /\ wire' = [wire EXCEPT !.origin_eof = TRUE]
    /\ UNCHANGED <<peerFrame, tunnel>>

\* copy_bidirectional, client to origin: a byte read is written on; at end
\* of file the sending direction towards the origin is shut down and this
\* direction is done
CopyClientToOrigin ==
    /\ tunnel.pc = "copy"
    /\ tunnel.a_to_b = "running"
    /\ IF wire.client_out # <<>>
       THEN /\ wire' = [wire EXCEPT !.client_out = Tail(@),
                                     !.origin_in = Append(@, Head(wire.client_out))]
            /\ UNCHANGED tunnel
       ELSE /\ wire.client_eof
            /\ wire' = [wire EXCEPT !.origin_shut = TRUE]
            /\ tunnel' = [tunnel EXCEPT !.a_to_b = "done"]
    /\ UNCHANGED peerFrame

\* copy_bidirectional, origin to client
CopyOriginToClient ==
    /\ tunnel.pc = "copy"
    /\ tunnel.b_to_a = "running"
    /\ IF wire.origin_out # <<>>
       THEN /\ wire' = [wire EXCEPT !.origin_out = Tail(@),
                                     !.client_in = Append(@, Head(wire.origin_out))]
            /\ UNCHANGED tunnel
       ELSE /\ wire.origin_eof
            /\ wire' = [wire EXCEPT !.client_shut = TRUE]
            /\ tunnel' = [tunnel EXCEPT !.b_to_a = "done"]
    /\ UNCHANGED peerFrame

\* copy_bidirectional returns Ok once both directions are done; the task
\* logs the byte counts and ends
TunnelFinish ==
    /\ tunnel.pc = "copy"
    /\ tunnel.a_to_b = "done" /\ tunnel.b_to_a = "done"
    /\ tunnel' = [tunnel EXCEPT !.pc = "done", !.result = "closed"]
    /\ wire' = Dropped(wire)
    /\ UNCHANGED peerFrame

\* copy_bidirectional returns Err: a read or a write failed
StreamFails ==
    /\ tunnel.pc = "copy"
    /\ tunnel' = [tunnel EXCEPT !.pc = "done", !.result = "error"]
    /\ wire' = Dropped(wire)
    /\ UNCHANGED peerFrame

NextTunnel ==
    \/ \E t \in Handlers :
        \/ TunnelRequest(t)
        \/ UpgradeParse(t)
        \/ UpgradeConnect(t)
        \/ UpgradeHandshake(t)
        \/ UpgradeSendRequest(t)
        \/ Respond(t)
    \/ ClientUpgradeResolves
    \/ BackendUpgradeResolves
    \/ TunnelJoin
    \/ ClientSends
    \/ OriginSends
    \/ ClientCloses
    \/ OriginCloses
    \/ CopyClientToOrigin
    \/ CopyOriginToClient
    \/ TunnelFinish
    \/ StreamFails

SpecTunnel == InitTunnel /\ [][NextTunnel]_vars

\* ---------------------------------------------------------------------------
\* SpecLocks: NumTasks tasks call the eight operations of one CacheStore.
\* Every `.read().await` and `.write().await` is a step of its own: the task
\* joins the queue of the lock (tokio's RwLock serves its waiters first come,
\* first served) and goes on when it is at the head and the lock is free.  A
\* read guard is dropped in the synchronous code that follows its await, so
\* it is never held across a step.
\* ---------------------------------------------------------------------------
\* the state of the proxy, which the store's operations never touch
servingVars == <<config, req, client_response, chan, listener, h_origin, h_cache, h_stored, h_stale,
                 n_requests, n_triggers, triggerHistory, h_lookups, auth_token, control,
                 tunnel, wire>>

Locks == {"store", "store_404", "keys_404"}

\* set_404 taking the FIFO's guard before the map's
set_404_guards_reversed == <<"keys_404", "store_404">>

\* set_404: self.store_404.write().await, then self.keys_404.write().await
set_404_guards == <<"store_404", "keys_404">>

\* the lock an operation awaits first
first_lock(name) ==
    IF name \in {"get", "set", "clear", "clear_by_pattern", "size"} THEN "store"
    ELSE IF name \in {"get_404", "size_404"} THEN "store_404"
    ELSE set_404_guards[1]

\* the keys and the negative responses of the calls
LockKeys == {key \in StoreKeys : key[1] = "G"}

\* the key that set overwrites with a different response
PositiveKeys == {default_cache_key(GET, <<"/", "a">>, <<>>)}

LockResponses == {response \in StoreResponses : response.body = <<1>>}

\* the calls the tasks make
StoreCalls ==
    {[NoOp EXCEPT !.name = "get_404", !.key = key] : key \in LockKeys}
    \cup {[NoOp EXCEPT !.name = "get", !.key = key] : key \in LockKeys}
    \cup {[NoOp EXCEPT !.name = "set", !.key = key, !.response = response] :
            key \in PositiveKeys, response \in StoreResponses}
    \cup {[NoOp EXCEPT !.name = "set", !.key = key, !.response = response] :
            key \in LockKeys, response \in LockResponses}
    \cup {[NoOp EXCEPT !.name = "set_404", !.key = key, !.response = response] :
            key \in LockKeys, response \in LockResponses}
    \cup {[NoOp EXCEPT !.name = "clear_by_pattern", !.pattern = pattern] :
            pattern \in StorePatterns}
    \cup {[NoOp EXCEPT !.name = name] : name \in {"clear", "size", "size_404"}}

\* the task at the head of lock l's queue is served next
Granted(t, l) == waiting[l] # <<>> /\ Head(waiting[l]) = t

\* task t has its guard on lock l and queues for lock next
Requeue(t, l, next) == waiting' = [waiting EXCEPT ![l] = Tail(@), ![next] = Append(@, t)]

\* task t has its guard on lock l and awaits no other
Dequeue(l) == waiting' = [waiting EXCEPT ![l] = Tail(@)]

InitLocks ==
    /\ \E capacity \in 0..MaxCapacity : NewStore(capacity)
    /\ IdleTasks
    /\ IdleMatcher
    /\ config = DefaultConfig
    /\ IdleProxy

\* a task calls an operation and reaches its first await; set_404 on a store
\* of capacity 0 returns before it
Invoke(t) ==
    /\ pc[t] = "idle"
    /\ \E call \in StoreCalls :
        IF call.name = "set_404" /\ cache_404_capacity = 0
        THEN Goto(t, "returned", call, <<>>) /\ UNCHANGED waiting
        ELSE /\ Goto(t, call.name, call, <<>>)
             /\ waiting' = [waiting EXCEPT ![first_lock(call.name)] = Append(@, t)]
    /\ UNCHANGED <<matcherVars, cacheVars, historyVars, servingVars>>

\* get: store.get(key).cloned()
AwaitGet(t) ==
    /\ pc[t] = "get"
    /\ Granted(t, "store")
    /\ get_step(op[t].key)
    /\ Dequeue("store")
    /\ Goto(t, "returned", op[t], MapGet(store, op[t].key))
    /\ UNCHANGED <<matcherVars, cacheVars, historyVars, servingVars>>

AwaitGet404(t) ==
    /\ pc[t] = "get_404"
    /\ Granted(t, "store_404")
    /\ get_404_step(op[t].key)
    /\ Dequeue("store_404")
    /\ Goto(t, "returned", op[t], get_404(op[t].key))
    /\ UNCHANGED <<matcherVars, cacheVars, historyVars, servingVars>>

AwaitSet(t) ==
    /\ pc[t] = "set"
    /\ Granted(t, "store")
    /\ set_step(op[t].key, op[t].response)
    /\ Dequeue("store")
    /\ Goto(t, "returned", op[t], <<>>)
    /\ UNCHANGED <<matcherVars, servingVars>>

\* set_404: the first guard is taken
AwaitSet404First(t) ==
    /\ pc[t] = "set_404"
    /\ Granted(t, set_404_guards[1])
    /\ lock[set_404_guards[1]] = Free
    /\ lock' = [lock EXCEPT ![set_404_guards[1]] = t]
    /\ Requeue(t, set_404_guards[1], set_404_guards[2])
    /\ Goto(t, "set_404_keys", op[t], <<>>)
    /\ UNCHANGED <<store, store_404, keys_404, cache_404_capacity, historyVars,
                   matcherVars, servingVars>>

\* set_404: the second guard is taken, the body runs, both guards are dropped
AwaitSet404Second(t) ==
    /\ pc[t] = "set_404_keys"
    /\ Granted(t, set_404_guards[2])
    /\ lock[set_404_guards[1]] = t
    /\ lock[set_404_guards[2]] = Free
    /\ LET after == set_404_body(store_404, keys_404, op[t].key, op[t].response,
                                 cache_404_capacity)
       IN  /\ store_404' = after.map
           /\ keys_404' = after.keys
    /\ lock' = [lock EXCEPT ![set_404_guards[1]] = Free]
    /\ Dequeue(set_404_guards[2])
    /\ Goto(t, "returned", op[t], <<>>)
    /\ UNCHANGED <<store, cache_404_capacity, historyVars, matcherVars, servingVars>>

AwaitClearStore(t) ==
    /\ pc[t] = "clear"
    /\ Granted(t, "store")
    /\ clear_store(t)
    /\ Requeue(t, "store", "store_404")
    /\ Goto(t, "clear_404", op[t], <<>>)
    /\ UNCHANGED <<matcherVars, servingVars>>

AwaitClearStore404(t) ==
    /\ pc[t] = "clear_404"
    /\ Granted(t, "store_404")
    /\ clear_store_404(t)
    /\ Requeue(t, "store_404", "keys_404")
    /\ Goto(t, "clear_keys", op[t], <<>>)
    /\ UNCHANGED <<matcherVars, servingVars>>

AwaitClearKeys(t) ==
    /\ pc[t] = "clear_keys"
    /\ Granted(t, "keys_404")
    /\ clear_keys(t)
    /\ Dequeue("keys_404")
    /\ Goto(t, "returned", op[t], <<>>)
    /\ UNCHANGED <<matcherVars, servingVars>>

AwaitClearByPatternStore(t) ==
    /\ pc[t] = "clear_by_pattern"
    /\ Granted(t, "store")
    /\ clear_by_pattern_store(t, op[t].pattern)
    /\ Requeue(t, "store", "store_404")
    /\ Goto(t, "clear_by_pattern_404", op[t], <<>>)
    /\ UNCHANGED <<matcherVars, servingVars>>

AwaitClearByPatternLock404(t) ==
    /\ pc[t] = "clear_by_pattern_404"
    /\ Granted(t, "store_404")
    /\ clear_by_pattern_lock_404(t)
    /\ Requeue(t, "store_404", "keys_404")
    /\ Goto(t, "clear_by_pattern_keys", op[t], <<>>)
    /\ UNCHANGED <<matcherVars, servingVars>>

AwaitClearByPatternRetain(t) ==
    /\ pc[t] = "clear_by_pattern_keys"
    /\ Granted(t, "keys_404")
    /\ clear_by_pattern_retain(t, op[t].pattern)
    /\ Dequeue("keys_404")
    /\ Goto(t, "returned", op[t], <<>>)
    /\ UNCHANGED <<matcherVars, servingVars>>

\* size: store.len()
AwaitSize(t) ==
    /\ pc[t] = "size"
    /\ Granted(t, "store")
    /\ size_step
    /\ Dequeue("store")
    /\ Goto(t, "returned", op[t], <<Cardinality(DOMAIN store)>>)
    /\ UNCHANGED <<matcherVars, cacheVars, historyVars, servingVars>>

AwaitSize404(t) ==
    /\ pc[t] = "size_404"
    /\ Granted(t, "store_404")
    /\ size_404_step
    /\ Dequeue("store_404")
    /\ Goto(t, "returned", op[t], <<size_404>>)
    /\ UNCHANGED <<matcherVars, cacheVars, historyVars, servingVars>>

\* the steps a task takes inside an operation, once it is served
Proceed(t) ==
    \/ AwaitGet(t)
    \/ AwaitGet404(t)
    \/ AwaitSet(t)
    \/ AwaitSet404First(t)
    \/ AwaitSet404Second(t)
    \/ AwaitClearStore(t)
    \/ AwaitClearStore404(t)
    \/ AwaitClearKeys(t)
    \/ AwaitClearByPatternStore(t)
    \/ AwaitClearByPatternLock404(t)
    \/ AwaitClearByPatternRetain(t)
    \/ AwaitSize(t)
    \/ AwaitSize404(t)

NextLocks ==
    \E t \in StoreTasks :
        \/ Invoke(t)
        \/ Proceed(t)
        \/ Return(t)

SpecLocks == InitLocks /\ [][NextLocks]_vars

\* the runtime polls every task that can go on
FairLocks == \A t \in StoreTasks : WF_vars(Proceed(t))

SpecLocksFair == SpecLocks /\ FairLocks

\* ---------------------------------------------------------------------------
\* SpecConstruct: the store as either constructor builds it from a
\* configuration, then used through its operations.
\* ---------------------------------------------------------------------------
\* create_proxy_with_trigger: CacheStore::new(refresh_trigger, 100)
TriggerCapacity == 100

\* with_cache_404_capacity(capacity)
ConfiguredCapacities == 0..MaxCapacity \cup {DefaultCapacity}

\* create_proxy: CacheStore::new(refresh_trigger.clone(), config.cache_404_capacity)
create_proxy(configuration) == NewStore(configuration.cache_404_capacity)

\* create_proxy_with_trigger: CacheStore::new(refresh_trigger, 100)
create_proxy_with_trigger(configuration) == NewStore(TriggerCapacity)

InitConstruct ==
    /\ \E capacity \in ConfiguredCapacities :
            config = [DefaultConfig EXCEPT !.cache_404_capacity = capacity]
    /\ create_proxy(config) \/ create_proxy_with_trigger(config)
    /\ IdleTasks
    /\ IdleMatcher
    /\ IdleProxy

SpecConstruct == InitConstruct /\ [][NextLocks]_vars

\* ---------------------------------------------------------------------------
\* SpecControl: the control router of create_control_router on the trigger of
\* a running proxy; the listener applies what the endpoint sends.
\* ---------------------------------------------------------------------------
Bearer == <<"B", "e", "a", "r", "e", "r", SP>>

Tokens == {<<"t">>, <<"t", "t">>}

\* the Authorization header of a request: absent, or a value that is text
\* or not
AuthorizationHeaders ==
    {<<>>}
    \cup {<<[value |-> v, text |-> TRUE]>> :
            v \in {Bearer \o <<"t">>, Bearer \o <<"t", "t">>, Bearer \o <<"t", SP>>,
                   <<"b">> \o Tail(Bearer) \o <<"t">>, <<"t">>, Bearer}}
    \cup {<<[value |-> Bearer \o <<"t">>, text |-> FALSE]>>}

\* the header has the scheme, whatever the token
is_authorized_by_scheme(token, authorization) ==
    \/ token = <<>>
    \/ /\ authorization # <<>>
       /\ authorization[1].text
       /\ StartsWith(authorization[1].value, Bearer)

\* if let Some(required_token) = &state.auth_token: the header, when it is
\* text, is compared with format!("Bearer {}", required_token)
is_authorized(token, authorization) ==
    \/ token = <<>>
    \/ LET auth_header == IF authorization # <<>> /\ authorization[1].text
                          THEN <<authorization[1].value>>
                          ELSE <<>>
           expected == Bearer \o token[1]
       IN  auth_header = <<expected>>

\* create_control_router(refresh_trigger, auth_token) on a proxy that has
\* served requests
InitControl ==
    /\ \E present \in SUBSET StoreKeys : store = StoredUnder(present)
    /\ store_404 = EmptyMap
    /\ keys_404 = <<>>
    /\ cache_404_capacity = DefaultCapacity
    /\ lock = [store |-> Free, store_404 |-> Free, keys_404 |-> Free]
    /\ h_inserted = <<>>
    /\ h_pure = TRUE
    /\ h_reins = [k \in StoreKeys |-> NoReins]
    /\ IdleTasks
    /\ IdleMatcher
    /\ config = DefaultConfig
    /\ req = [t \in StoreTasks |-> NoRequest]
    /\ client_response = [t \in StoreTasks |-> <<>>]
    /\ h_origin = [t \in StoreTasks |-> 0]
    /\ h_cache = [t \in StoreTasks |-> FALSE]
    /\ h_lookups = [t \in StoreTasks |-> <<>>]
    /\ h_stored = EmptyMap
    /\ h_stale = NoStale
    /\ n_requests = 0
    /\ control = NoControl
    /\ tunnel = NoTunnel
    /\ wire = NoWire
    /\ waiting = NoWaiting
    /\ NewChannel
    /\ listener = Listening
    /\ auth_token \in {<<>>} \cup {<<token>> : token \in Tokens}

\* refresh_cache_handler
RefreshCacheHandler ==
    /\ n_requests < MaxRequests
    /\ n_requests' = n_requests + 1
    /\ \E authorization \in AuthorizationHeaders :
        IF is_authorized(auth_token, authorization)
        THEN /\ send(RefreshAll)
             /\ Mark(RefreshAll)
             /\ n_triggers' = n_triggers + 1
             /\ h_sent' = Append(h_sent, RefreshAll)
             /\ control' = [authorization |-> authorization, status |-> 200]
        ELSE /\ control' = [authorization |-> authorization, status |-> 401]
             /\ UNCHANGED <<chan, listener, n_triggers, h_sent, h_stale>>
    /\ UNCHANGED <<matcherVars, cacheVars, taskVars, historyVars, config, req, client_response,
                   h_origin, h_cache, h_lookups, h_stored, h_next, h_due, auth_token,
                   tunnel, wire,
          waiting>>

NextControl ==
    \/ RefreshCacheHandler
    \/ ListenerRecv
    \/ ListenerClearStore
    \/ ListenerClearStore404
    \/ ListenerClearKeys

SpecControl == InitControl /\ [][NextControl]_vars

\* ---------------------------------------------------------------------------
\* SpecFunctions: the default cache key function applied to two RequestInfo
\* values, and convert_headers applied to a list of inbound header lines.
\* ---------------------------------------------------------------------------
MaxHeaders == 2

\* fn convert_headers(headers): the Host lines are skipped, each other line
\* whose value is text is inserted, which replaces a value inserted before
\* under the same name
convert_headers(headers) ==
    convert_headers_to_map(SelectSeq(headers, LAMBDA h : h.name # "host"))

KeyMethods == {GET, POST, GET \o <<":">>}

KeyPaths == {<<"/", "a">>, <<"/", "b">>, <<":", "/", "a">>, <<"/", "a", "?", "x">>}

KeyQueries == {<<>>, <<"x">>, <<"x", "?", "y">>}

\* the header maps a RequestInfo may refer to
KeyHeaders == {PlainHeaders, UpgradeHeaders}

RequestInfos ==
    [method : KeyMethods, path : KeyPaths, query : KeyQueries, headers : KeyHeaders]

\* the cache_key_fn closure applied to a RequestInfo
cache_key_fn(req_info) == default_cache_key(req_info.method, req_info.path, req_info.query)

HeaderLines ==
    [name : {"host", "connection", "te", "accept"}, value : {"1", "2"}, text : BOOLEAN]

\* sequences of at most n elements of S
RECURSIVE ListsUpTo(_, _)
ListsUpTo(S, n) ==
    IF n = 0 THEN {<<>>}
    ELSE LET shorter == ListsUpTo(S, n - 1)
         IN  shorter \cup {Append(q, x) : q \in shorter, x \in S}

InitFunctions ==
    /\ \/ \E a \in RequestInfos, b \in RequestInfos :
             mcall = [fn |-> "cache_key_fn", first |-> a, second |-> b]
       \/ \E headers \in ListsUpTo(HeaderLines, MaxHeaders) :
             mcall = [fn |-> "convert_headers", headers |-> headers]
    /\ mret = <<>>
    /\ NewStore(DefaultCapacity)
    /\ IdleTasks
    /\ config = DefaultConfig
    /\ IdleProxy

\* (state.config.cache_key_fn)(&req_info), for two requests
CacheKeyFn ==
    /\ mcall.fn = "cache_key_fn"
    /\ mret = <<>>
    /\ mret' = <<[first |-> cache_key_fn(mcall.first), second |-> cache_key_fn(mcall.second)]>>
    /\ UNCHANGED <<mcall, cacheVars, taskVars, historyVars, proxyVars>>

\* .headers(convert_headers(&headers))
ConvertHeaders ==
    /\ mcall.fn = "convert_headers"
    /\ mret = <<>>
    /\ mret' = <<convert_headers(mcall.headers)>>
    /\ UNCHANGED <<mcall, cacheVars, taskVars, historyVars, proxyVars>>

NextFunctions ==
    \/ CacheKeyFn
    \/ ConvertHeaders

SpecFunctions == InitFunctions /\ [][NextFunctions]_vars

\* ---------------------------------------------------------------------------
\* SpecTrigger: a RefreshTrigger that is used before create_proxy_with_trigger
\* subscribes the listener to it, and afterwards faster than the listener
\* receives. Handlers are reduced to the cache.set of a miss.
\* ---------------------------------------------------------------------------
MaxPatternTriggers == 1
MaxBurst == ChannelCapacity + 2

\* RefreshTrigger::new() has returned; the proxy is not created yet
InitTrigger ==
    /\ NewStore(DefaultCapacity)
    /\ IdleTasks
    /\ IdleMatcher
    /\ config = DefaultConfig
    /\ IdleHandlers
    /\ NewChannel
    /\ listener = [Listening EXCEPT !.pc = "unsubscribed"]

\* create_proxy_with_trigger: CacheStore::new, then spawn_refresh_listener
\* subscribes a new receiver, which sees only what is sent from now on
Subscribe ==
    /\ listener.pc = "unsubscribed"
    /\ listener' = Listening
    /\ h_next' = Len(h_sent) + 1
    /\ UNCHANGED <<listenerFrame, cacheVars, historyVars, h_stored, h_stale, chan, n_triggers,
                   h_sent, h_due>>

\* the stored keys a message asks to remove
Matching(message) ==
    {k \in DOMAIN store : message.kind = "All" \/ cache_matches_pattern(k, message.pattern)}

\* let _ = self.sender.send(message)
Publish(message) ==
    /\ n_triggers < MaxBurst
    /\ n_triggers' = n_triggers + 1
    /\ send(message)
    /\ h_sent' = Append(h_sent, message)
    /\ h_due' = IF listener.pc = "unsubscribed" THEN h_due ELSE h_due \cup Matching(message)
    /\ Mark(message)
    /\ UNCHANGED <<listenerFrame, cacheVars, historyVars, h_stored, h_next>>

\* RefreshTrigger::trigger, any number of times
TriggerCall == Publish(RefreshAll)

\* RefreshTrigger::trigger_by_key_match
TriggerByKeyMatchCall ==
    /\ Cardinality({i \in DOMAIN h_sent : h_sent[i].kind = "Pattern"}) < MaxPatternTriggers
    /\ \E pattern \in StorePatterns : Publish(RefreshPattern(pattern))

\* proxy_handler's cache.set(cache_key, cached_response) after a miss
HandlerStores ==
    /\ listener.pc # "unsubscribed"
    /\ \E key \in StoreKeys :
        /\ set_step(key, StoredUnder({key})[key])
        /\ h_due' = h_due \ {key}
        /\ h_stale' = [h_stale EXCEPT !.keys = @ \ {key}]
    /\ UNCHANGED <<listenerFrame, chan, listener, h_stored, n_triggers, h_sent, h_next>>

NextTrigger ==
    \/ Subscribe
    \/ TriggerCall
    \/ TriggerByKeyMatchCall
    \/ HandlerStores
    \/ ListenerRecv
    \/ ListenerClearStore
    \/ ListenerClearStore404
    \/ ListenerClearKeys
    \/ ListenerClearByPatternStore
    \/ ListenerClearByPatternLock404
    \/ ListenerClearByPatternRetain

SpecTrigger == InitTrigger /\ [][NextTrigger]_vars

\* ---------------------------------------------------------------------------
\* SpecStale: requests served while trigger() is called, with the history of
\* what was sent and of which responses are older than the message.
\* ---------------------------------------------------------------------------
\* RefreshTrigger::trigger, at most MaxTriggers times
TriggerOnce ==
    /\ n_triggers < MaxTriggers
    /\ Publish(RefreshAll)

NextStale ==
    \/ \E t \in Handlers :
        \/ AcceptUpgrade(t)
        \/ Tunnel(t)
        \/ Classify(t)
        \/ CacheGet(t)
        \/ ReadBody(t)
        \/ Send(t)
        \/ ResponseBody(t)
        \/ CacheSet(t)
        \/ Respond(t)
    \/ TriggerOnce
    \/ ListenerRecv
    \/ ListenerClearStore
    \/ ListenerClearStore404
    \/ ListenerClearKeys

SpecStale == InitCancel /\ [][NextStale]_vars

Returned(fn) == mcall.fn = fn /\ mret # <<>>

\* the value the call returned
Result == mret[1]

(***************************************************************************)
(* C3: should_cache_path returns false whenever an exclude pattern matches *)
(* (method, path), whatever the include list; otherwise true when the      *)
(* include list is empty, and otherwise true exactly when an include       *)
(* pattern matches (method, path).                                         *)
(***************************************************************************)
PatternMatchesRequest(pat) ==
    matches_pattern_with_method(mcall.method, mcall.path, pat)

SomeMatches(list) == \E i \in DOMAIN list : PatternMatchesRequest(list[i])

C3_ShouldCachePolicy ==
    Returned("should_cache_path") =>
        /\ SomeMatches(mcall.exclude) => Result = FALSE
        /\ (~SomeMatches(mcall.exclude) /\ mcall.include = <<>>) => Result = TRUE
        /\ (~SomeMatches(mcall.exclude) /\ mcall.include # <<>>) =>
               Result = SomeMatches(mcall.include)

\* an exclude pattern and an include pattern both match, and the answer is false
C3_Witness ==
    /\ Returned("should_cache_path")
    /\ SomeMatches(mcall.exclude)
    /\ SomeMatches(mcall.include)
    /\ Result = FALSE

(***************************************************************************)
(* C4: for every path and every method-free path-glob, matches_pattern is  *)
(* true exactly when the path is obtained from the glob by replacing each  *)
(* '*' with some (possibly empty) string.                                  *)
(***************************************************************************)
\* the reference wildcard semantics
RECURSIVE WildcardMatch(_, _)
WildcardMatch(glob, x) ==
    IF glob = <<>> THEN x = <<>>
    ELSE IF Head(glob) = STAR
    THEN \E k \in 0..Len(x) : WildcardMatch(Tail(glob), SliceFrom(x, k))
    ELSE x # <<>> /\ Head(x) = Head(glob) /\ WildcardMatch(Tail(glob), Tail(x))

C4_GlobAgreesWithWildcard ==
    (Returned("matches_pattern") /\ mcall.pattern \in Globs) =>
        Result = WildcardMatch(mcall.pattern, mcall.path)

(***************************************************************************)
(* C5 as stated: for every pattern p without '*' and every path x,         *)
(* matches_pattern(x, p) is true iff x equals p exactly, also when p has   *)
(* leading or trailing whitespace.                                         *)
(***************************************************************************)
NoStar(p) == \A i \in DOMAIN p : p[i] # STAR

C5_ExactMatchLiteral ==
    (Returned("matches_pattern") /\ NoStar(mcall.pattern)) =>
        Result = (mcall.path = mcall.pattern)

\* q begins with one of the nine method tokens followed by a space or a tab
HasMethodPrefix(q) ==
    \E i \in DOMAIN methods : \E w \in {SP, TAB} :
        StartsWith(q, Append(methods[i], w))

(***************************************************************************)
(* C5 amended: for every pattern p without '*' whose trimmed form does not *)
(* begin with a method token and whitespace, matches_pattern(x, p) is true *)
(* iff x equals p with its leading and trailing whitespace removed.        *)
(***************************************************************************)
C5_ExactMatchTrimmed ==
    (/\ Returned("matches_pattern")
     /\ NoStar(mcall.pattern)
     /\ ~HasMethodPrefix(Trim(mcall.pattern))) =>
        Result = (mcall.path = Trim(mcall.pattern))

\* a padded pattern matched the path that equals its trimmed form
C5_Witness ==
    /\ Returned("matches_pattern")
    /\ NoStar(mcall.pattern)
    /\ ~HasMethodPrefix(Trim(mcall.pattern))
    /\ mcall.pattern # Trim(mcall.pattern)
    /\ mcall.path # <<>>
    /\ Result = TRUE

(***************************************************************************)
(* C6 as stated: for every pattern 'M p' (M one of the nine method tokens  *)
(* followed by a space or tab) and every request (m, x),                   *)
(* matches_pattern_with_method(Some(m), x, 'M p') is true iff m = M and    *)
(* the path-glob p matches x; for every pattern without a method prefix    *)
(* the result does not depend on m.  The path-glob p is the remainder of   *)
(* the pattern with its surrounding whitespace removed.                    *)
(***************************************************************************)
\* the M of a pattern that begins with a method token and a space or tab
LeadingMethod(q) ==
    CHOOSE M \in {methods[i] : i \in DOMAIN methods} :
        \E w \in {SP, TAB} : StartsWith(q, Append(M, w))

\* the p of such a pattern
Remainder(q) == Trim(SliceFrom(q, Len(LeadingMethod(q)) + 1))

MethodFree(q) == ~HasMethodPrefix(Trim(q))

IndependentOfMethod ==
    \A m \in RequestMethods :
        Result = matches_pattern_with_method(m, mcall.path, mcall.pattern)

C6_MethodPolicyAll ==
    Returned("matches_pattern_with_method") =>
        /\ HasMethodPrefix(mcall.pattern) =>
               Result = (/\ mcall.method = LeadingMethod(mcall.pattern)
                       /\ matches_path_pattern(mcall.path, Remainder(mcall.pattern)))
        /\ MethodFree(mcall.pattern) => IndependentOfMethod

(***************************************************************************)
(* C6 amended: the same, for the patterns 'M p' whose p holds at least one *)
(* character that is not whitespace.                                       *)
(***************************************************************************)
C6_MethodPolicy ==
    Returned("matches_pattern_with_method") =>
        /\ (HasMethodPrefix(mcall.pattern) /\ Remainder(mcall.pattern) # <<>>) =>
               Result = (/\ mcall.method = LeadingMethod(mcall.pattern)
                       /\ matches_path_pattern(mcall.path, Remainder(mcall.pattern)))
        /\ MethodFree(mcall.pattern) => IndependentOfMethod

\* a method-bearing pattern whose glob matches the path was refused to a
\* request with another method
C6_Witness ==
    /\ Returned("matches_pattern_with_method")
    /\ HasMethodPrefix(mcall.pattern)
    /\ Remainder(mcall.pattern) # <<>>
    /\ mcall.method # LeadingMethod(mcall.pattern)
    /\ matches_path_pattern(mcall.path, Remainder(mcall.pattern))
    /\ Result = FALSE

(***************************************************************************)
(* C7: starting from an empty store with capacity c > 0, after set_404 has *)
(* been called n times with pairwise distinct keys, size_404() is          *)
(* min(n, c), the keys of the negative map are exactly the last min(n, c)  *)
(* keys inserted, and get_404 of each surviving key returns the response   *)
(* it was inserted with.                                                   *)
(***************************************************************************)
Min(a, b) == IF a < b THEN a ELSE b

\* the last min(n, c) of the n insertions
LastInserted ==
    LET n == Len(h_inserted)
    IN  {h_inserted[i] : i \in (n - Min(n, cache_404_capacity) + 1)..n}

C7_FifoEviction ==
    (h_pure /\ cache_404_capacity > 0) =>
        /\ size_404 = Min(Len(h_inserted), cache_404_capacity)
        /\ DOMAIN store_404 = {e.key : e \in LastInserted}
        /\ \A e \in LastInserted : get_404(e.key) = <<e.response>>

\* more distinct keys than the capacity were inserted, and a get_404 of the
\* newest one returned its response
C7_Witness ==
    /\ h_pure
    /\ cache_404_capacity > 0
    /\ Len(h_inserted) > cache_404_capacity
    /\ \E t \in StoreTasks :
        /\ pc[t] = "returned"
        /\ op[t].name = "get_404"
        /\ op[t].key = h_inserted[Len(h_inserted)].key
        /\ ret[t] = <<h_inserted[Len(h_inserted)].response>>

(***************************************************************************)
(* C8: after any interleaving of set_404, clear and clear_by_pattern by    *)
(* concurrent tasks, in every state in which no write guard is held, the   *)
(* set of keys in keys_404 equals the key set of store_404.                *)
(***************************************************************************)
NoWriteGuard == \A l \in DOMAIN lock : lock[l] = Free

C8_FifoMapConsistency ==
    NoWriteGuard => Range(keys_404) = DOMAIN store_404

\* one task has returned from set_404, another from an invalidation, and
\* the negative map still holds a key
C8_Witness ==
    /\ NoWriteGuard
    /\ store_404 # EmptyMap
    /\ \E t, u \in StoreTasks :
        /\ pc[t] = "returned" /\ op[t].name = "set_404"
        /\ pc[u] = "returned" /\ op[u].name \in {"clear", "clear_by_pattern"}

(***************************************************************************)
(* C9: whenever no write is in progress the negative map holds at most     *)
(* cache_404_capacity entries; with capacity 0 the negative map and the    *)
(* FIFO stay empty and get_404 always returns absent.                      *)
(***************************************************************************)
C9_NegativeCacheBound ==
    /\ (lock.store_404 = Free /\ lock.keys_404 = Free) =>
           size_404 <= cache_404_capacity
    /\ cache_404_capacity = 0 =>
           /\ store_404 = EmptyMap
           /\ keys_404 = <<>>
           /\ \A t \in StoreTasks :
                  (pc[t] = "returned" /\ op[t].name = "get_404") => ret[t] = <<>>

\* the map is full after an insertion that had to evict
C9_Witness ==
    /\ lock.store_404 = Free /\ lock.keys_404 = Free
    /\ cache_404_capacity > 0
    /\ size_404 = cache_404_capacity
    /\ h_pure /\ Len(h_inserted) > cache_404_capacity
    /\ \E t \in StoreTasks : pc[t] = "returned" /\ op[t].name = "set_404"

\* with capacity 0: a set_404 has returned, and a get_404 of its key too
C9_DisabledReached ==
    /\ cache_404_capacity = 0
    /\ \E t, u \in StoreTasks :
        /\ pc[t] = "returned" /\ op[t].name = "set_404"
        /\ pc[u] = "returned" /\ op[u].name = "get_404"
        /\ op[u].key = op[t].key

(***************************************************************************)
(* C10 as stated: set_404(k, v) for a key k already in the negative map    *)
(* replaces its response with v, removes k's earlier FIFO position and     *)
(* appends k at the tail, without changing size_404 and without evicting   *)
(* any other key; k is thereafter evicted only after every key that was in *)
(* the FIFO at that moment.                                                *)
(***************************************************************************)
\* task t runs the body of set_404 in this step
Inserts(t) == pc[t] = "set_404_keys" /\ pc'[t] = "returned"

Reinserted(k, v) ==
    /\ store_404' = [x \in DOMAIN store_404 |-> IF x = k THEN v ELSE store_404[x]]
    /\ keys_404' = Append(SelectSeq(keys_404, LAMBDA x : x # k), k)
    /\ Cardinality(DOMAIN store_404') = Cardinality(DOMAIN store_404)

\* the keys this step evicts
Evicted == Range(keys_404) \ Range(keys_404')

C10_EvictedAfterAllAhead ==
    [][\A t \in StoreTasks : Inserts(t) =>
          /\ op[t].key \in DOMAIN store_404 => Reinserted(op[t].key, op[t].response)
          /\ \A j \in Evicted : h_reins[j].ahead = {}]_vars

(***************************************************************************)
(* C10 amended: the same, but k is thereafter evicted only after every key *)
(* that was in the FIFO at that moment and has not itself been re-inserted *)
(* since.                                                                  *)
(***************************************************************************)
C10_EvictedAfterUnmoved ==
    [][\A t \in StoreTasks : Inserts(t) =>
          /\ op[t].key \in DOMAIN store_404 => Reinserted(op[t].key, op[t].response)
          /\ \A j \in Evicted : h_reins[j].ahead \ h_reins[j].bumped = {}]_vars

\* a key was re-inserted while another key was in the FIFO, and that other
\* key has been re-inserted behind it since
C10_Witness ==
    /\ NoWriteGuard
    /\ Len(keys_404) = 2
    /\ \E k \in Range(keys_404) : h_reins[k].bumped # {}
    /\ \E t \in StoreTasks : pc[t] = "returned" /\ op[t].name = "set_404"

(***************************************************************************)
(* C1: when a request that is cacheable by policy computes key k, misses,  *)
(* and its origin fetch succeeds, the response is stored under k; any      *)
(* later cacheable request computing the same k, with no intervening       *)
(* clear, matching clear_by_pattern or overwrite of k, is answered with    *)
(* the stored status, headers and body (the ones the miss returned) and    *)
(* the origin is not contacted for it.                                     *)
(***************************************************************************)
\* handler t stores its fetched response in this step
Stores(t) == pc[t] = "cache_set" /\ pc'[t] = "returned"

\* handler t looks k up in this step, after a miss stored k and returned
\* h_stored[k], with no clear or matching clear_by_pattern since
LooksUpStored(t) ==
    /\ pc[t] = "cache_get" /\ pc'[t] # "cache_get"
    /\ req[t].cache_key \in DOMAIN h_stored

C1_MissThenHit ==
    [][\A t \in Handlers :
          /\ Stores(t) =>
                /\ MapGet(store', req[t].cache_key) = req[t].cached
                /\ client_response'[t] =
                       <<[status |-> req[t].cached[1].status,
                          headers |-> req[t].cached[1].headers,
                          body |-> req[t].cached[1].body]>>
          /\ LooksUpStored(t) =>
                /\ pc'[t] = "returned"
                /\ client_response'[t] = <<h_stored[req[t].cache_key]>>
                /\ h_origin'[t] = 0]_vars

\* one handler has returned a hit while the handler whose miss stored the
\* key still holds the response it returned, and the two are the same
C1_Witness ==
    \E t, u \in Handlers :
        /\ t # u
        /\ pc[t] = "returned" /\ pc[u] = "returned"
        /\ req[t].should_cache = <<TRUE>> /\ req[u].should_cache = <<TRUE>>
        /\ req[t].cache_key = req[u].cache_key
        /\ req[t].cached # <<>> /\ h_origin[t] = 1
        /\ req[u].cached = <<>> /\ h_origin[u] = 0
        /\ client_response[u] = client_response[t]
        /\ client_response[u][1].status = 404

(***************************************************************************)
(* C2 as stated: for every request for which should_cache is false (an     *)
(* exclude pattern matches, or the include list is non-empty and no        *)
(* include pattern matches), proxy_handler neither reads nor writes the    *)
(* cache store, and the origin is contacted for every such request,        *)
(* however many times it is repeated.                                      *)
(***************************************************************************)
MatchesSome(t, patterns) ==
    \E i \in DOMAIN patterns :
        matches_pattern_with_method(req[t].method, req[t].path, patterns[i])

\* handler t has come to the policy check, and the policy is to bypass
Bypasses(t) ==
    /\ req[t].should_cache # <<>>
    /\ \/ MatchesSome(t, config.exclude_paths)
       \/ config.include_paths # <<>> /\ ~MatchesSome(t, config.include_paths)

C2_BypassAlwaysFetches ==
    \A t \in Handlers : Bypasses(t) =>
        /\ ~h_cache[t]
        /\ pc[t] = "returned" => h_origin[t] = 1

(***************************************************************************)
(* C2 amended: the same, the origin being contacted for every such request *)
(* whose inbound body is read successfully.                                *)
(***************************************************************************)
C2_BypassFetchesReadBodies ==
    \A t \in Handlers : Bypasses(t) =>
        /\ ~h_cache[t]
        /\ (pc[t] = "returned" /\ req[t].body = "read") => h_origin[t] = 1

\* the same bypassed request has been answered from the origin twice, and
\* the store holds nothing
C2_Witness ==
    \E t, u \in Handlers :
        /\ t # u
        /\ Bypasses(t) /\ Bypasses(u)
        /\ pc[t] = "returned" /\ pc[u] = "returned"
        /\ req[t].method = req[u].method /\ req[t].path = req[u].path
        /\ MatchesSome(t, config.exclude_paths)
        /\ h_origin[t] = 1 /\ h_origin[u] = 1
        /\ client_response[t][1].status = 200
        /\ client_response[u][1].status = 404
        /\ store = EmptyMap

(***************************************************************************)
(* C11: at the moment clear_by_pattern(p) completes, no key in the         *)
(* positive map, the negative map or the FIFO matches p, and every key     *)
(* that does not match p is still present with its response unchanged and  *)
(* its relative FIFO order preserved; clear() leaves both maps and the     *)
(* FIFO empty.                                                             *)
(***************************************************************************)
\* task t is inside clear_by_pattern, past its store.retain
InClearByPattern(t) == pc[t] \in {"clear_by_pattern_404", "clear_by_pattern_keys"}

\* map m without the keys that match glob p, the other entries as they were
Surviving(m, p) == [k \in {x \in DOMAIN m : ~WildcardMatch(p, x)} |-> m[k]]

C11_ClearByPatternFrame ==
    [][\A t \in StoreTasks :
          /\ (pc[t] = "idle" /\ InClearByPattern(t)') =>
                store' = Surviving(store, op'[t].pattern)
          /\ InClearByPattern(t) => store' = store
          /\ (pc[t] = "clear_by_pattern_keys" /\ pc'[t] = "returned") =>
                /\ store_404' = Surviving(store_404, op[t].pattern)
                /\ keys_404' = SelectSeq(keys_404,
                                         LAMBDA k : ~WildcardMatch(op[t].pattern, k))
                /\ \A k \in DOMAIN store' \cup DOMAIN store_404' \cup Range(keys_404') :
                       ~WildcardMatch(op[t].pattern, k)
          /\ (pc[t] = "clear_keys" /\ pc'[t] = "returned") =>
                store' = EmptyMap /\ store_404' = EmptyMap /\ keys_404' = <<>>]_vars

\* a clear_by_pattern has returned that left a key in the positive map and
\* one in the negative map
C11_Witness ==
    \E t \in StoreTasks :
        /\ pc[t] = "returned" /\ op[t].name = "clear_by_pattern"
        /\ NoWriteGuard
        /\ store # EmptyMap /\ store # StoredUnder(StoreKeys)
        /\ store_404 # EmptyMap

(***************************************************************************)
(* C12: for every string s and every pattern p without a method prefix,    *)
(* cache::matches_pattern(s, p) returns what the path matcher's glob       *)
(* evaluation matches_path_pattern(s, p) returns, and a pattern such as    *)
(* 'GET:/*' is matched literally against the key, with no method parsing.  *)
(***************************************************************************)
C12_SameGlobSemantics ==
    (Returned("cache_matches_pattern") /\ ~HasMethodPrefix(mcall.pattern)) =>
        /\ Result = matches_path_pattern(mcall.path, mcall.pattern)
        /\ mcall.pattern \in StorePatterns =>
               Result = WildcardMatch(mcall.pattern, mcall.path)

\* the invalidation matcher alone: it decides as the wildcard semantics do
CacheMatcherIsWildcard ==
    Returned("cache_matches_pattern") =>
        Result = WildcardMatch(mcall.pattern, mcall.path)

\* the two matchers disagree only where the path matcher departs from the
\* wildcard semantics
DisagreeOnlyWherePathMatcherWrong ==
    (/\ Returned("cache_matches_pattern")
     /\ Result # matches_path_pattern(mcall.path, mcall.pattern)) =>
        /\ Result = WildcardMatch(mcall.pattern, mcall.path)
        /\ Result = TRUE

(***************************************************************************)
(* C13: the listener applies messages one at a time, in the order they     *)
(* were sent: each message it takes is the next one of the sent sequence   *)
(* (none twice, none out of order), it takes one only when the application *)
(* of the previous one is complete, and an application changes the store   *)
(* as clear() does for All and as clear_by_pattern(p) does for Pattern(p). *)
(***************************************************************************)
ListenerApplying == listener.pc \notin {"unsubscribed", "recv", "stopped"}

ListenerHoldsNoGuard == \A l \in DOMAIN lock : lock[l] # Listener

C13_SerialInOrder ==
    [][/\ (listener.pc = "recv" /\ ListenerApplying') =>
            /\ ListenerHoldsNoGuard
            /\ h_next \in DOMAIN h_sent
            /\ listener'.message = <<h_sent[h_next]>>
            /\ h_next' = h_next + 1
            /\ store' = store /\ store_404' = store_404 /\ keys_404' = keys_404
       /\ ListenerApplying =>
            /\ h_next' = h_next
            /\ listener'.message = IF listener'.pc = "recv" THEN <<>> ELSE listener.message
       /\ (listener.pc = "clear" /\ listener'.pc # "clear") =>
            /\ listener.message[1].kind = "All"
            /\ store' = EmptyMap
       /\ (listener.pc = "clear_keys" /\ listener'.pc = "recv") =>
            /\ store_404' = EmptyMap /\ keys_404' = <<>>
            /\ ListenerHoldsNoGuard'
       /\ (listener.pc = "clear_by_pattern" /\ listener'.pc # "clear_by_pattern") =>
            /\ listener.message[1].kind = "Pattern"
            /\ store' = Surviving(store, listener.message[1].pattern)
       /\ (listener.pc = "clear_by_pattern_keys" /\ listener'.pc = "recv") =>
            /\ store_404' = Surviving(store_404, listener.message[1].pattern)
            /\ ListenerHoldsNoGuard'
       /\ (DOMAIN store \ DOMAIN store' # {}) =>
            listener.pc \in {"clear", "clear_by_pattern"}
      ]_vars

\* the listener took a Pattern message right after an All message and is
\* applying it to a store that holds a key the pattern leaves alone
C13_Witness ==
    /\ listener.pc = "clear_by_pattern_404"
    /\ h_next > 2
    /\ listener.message = <<h_sent[h_next - 1]>>
    /\ h_sent[h_next - 2].kind = "All"
    /\ h_due = {}
    /\ store # EmptyMap
    /\ chan # <<>>

(***************************************************************************)
(* C14: a listener that fell behind the backlog of 16 messages keeps       *)
(* running; it stops only when the channel is closed. The CacheStore the   *)
(* listener owns holds a RefreshTrigger, so a sender exists for as long as *)
(* the listener does and the channel is never closed: the listener never   *)
(* stops.                                                                  *)
(***************************************************************************)
C14_LagNotFatal == listener.pc # "stopped"

\* the listener stops in no other way than by receiving the lagged indication
StopsOnlyOnLag ==
    [][(listener.pc # "stopped" /\ listener'.pc = "stopped") =>
            /\ listener.pc = "recv" /\ listener.lagged
            /\ Len(chan) = ChannelCapacity
            /\ Len(h_sent) - h_next + 1 > ChannelCapacity]_vars

(***************************************************************************)
(* C15: for every trigger call made after the proxy was created, every key *)
(* that was stored and matched the message when it was sent is removed     *)
(* from the store, unless a later request stored it again, by the time the *)
(* listener has taken every step it can take (the state a fairly scheduled *)
(* listener reaches and stays in when no further message is sent).         *)
(***************************************************************************)
ListenerAtRest ==
    \/ listener.pc = "stopped"
    \/ listener.pc = "recv" /\ chan = <<>> /\ ~listener.lagged

C15_EventuallyApplied == ListenerAtRest => h_due = {}

\* a listener that did not stop has removed every due key when it is at rest
AppliedUnlessStopped == (ListenerAtRest /\ listener.pc # "stopped") => h_due = {}

\* the keys due for removal are stored keys
DueKeysAreStored == h_due \subseteq DOMAIN store

(***************************************************************************)
(* C16: trigger() publishes All and trigger_by_key_match(p) publishes      *)
(* Pattern(p); a call can return in every channel state (no subscriber, a  *)
(* full backlog); with no subscriber the message is dropped and nothing    *)
(* but the record of the call changes; with a subscriber the message is    *)
(* the newest of its backlog; a subscriber starts with an empty backlog    *)
(* and its backlog holds only messages sent after it subscribed.           *)
(***************************************************************************)
NoSubscriber == listener.pc \in {"unsubscribed", "stopped"}

Last(q) == q[Len(q)]

\* what a step that returns from a trigger call, or that subscribes, does
PublishStep ==
    /\ (n_triggers' = n_triggers + 1) =>
        /\ Len(h_sent') = Len(h_sent) + 1
        /\ cacheVars' = cacheVars
        /\ IF NoSubscriber
           THEN chan' = chan /\ listener' = listener /\ h_next' = h_next
           ELSE /\ chan' # <<>>
                /\ Last(chan') = Last(h_sent')
                /\ Len(chan') <= ChannelCapacity
                /\ listener'.pc = listener.pc
    /\ (listener.pc = "unsubscribed" /\ listener'.pc # "unsubscribed") =>
        /\ chan' = <<>>
        /\ h_next' = Len(h_sent) + 1

C16_PublishNeverBlocks ==
    /\ [](n_triggers < MaxBurst => ENABLED TriggerCall)
    /\ []((~NoSubscriber /\ ~listener.lagged) =>
              chan = SubSeq(h_sent, h_next, Len(h_sent)))
    /\ [][PublishStep]_vars

\* a Pattern message was sent before the listener subscribed, and then more
\* messages than the backlog holds before the listener received any
C16_Witness ==
    /\ listener.pc = "recv"
    /\ listener.lagged
    /\ h_next = 2
    /\ h_sent[1].kind = "Pattern"
    /\ Len(chan) = ChannelCapacity
    /\ Len(h_sent) = ChannelCapacity + 2

(***************************************************************************)
(* C17: a request with an Upgrade header, or with a Connection value that  *)
(* contains 'upgrade' in any letter case, is answered 501 without the      *)
(* origin being contacted when upgrades are disabled, and goes to the      *)
(* tunnel when they are enabled; in both cases no method gate (405), no    *)
(* cacheability decision, no body read and no cache access happens for it, *)
(* whatever its method and whatever forward_get_only says.                 *)
(***************************************************************************)
UpgradeLetters ==
    <<{"u", "U"}, {"p", "P"}, {"g", "G"}, {"r", "R"}, {"a", "A"}, {"d", "D"}, {"e", "E"}>>

IndicatesUpgrade(headers) ==
    \/ headers.upgrade # <<>>
    \/ \E v \in DOMAIN headers.connection :
         LET c == headers.connection[v]
         IN  \E i \in 0..(Len(c) - Len(UpgradeLetters)) :
               \A j \in DOMAIN UpgradeLetters : c[i + j] \in UpgradeLetters[j]

\* the same, looking at the first Connection value only
FirstValueIndicatesUpgrade(headers) ==
    IndicatesUpgrade([headers EXCEPT !.connection =
                         IF headers.connection = <<>> THEN <<>>
                         ELSE <<Head(headers.connection)>>])

Serving(t) == pc[t] # "idle"

Status(t) == client_response[t][1].status

UpgradeHandledFirst(Indicates(_)) ==
    \A t \in Handlers :
        (Serving(t) /\ Indicates(req[t].headers)) =>
            /\ pc[t] \in {"upgrade", "returned"}
            /\ ~h_cache[t]
            /\ h_lookups[t] = <<>>
            /\ req[t].should_cache = <<>>
            /\ req[t].body = "unread"
            /\ IF config.enable_websocket
               THEN /\ h_origin[t] = IF pc[t] = "returned" THEN 1 ELSE 0
                    /\ pc[t] = "returned" => Status(t) \notin {405, 501}
               ELSE /\ pc[t] = "returned"
                    /\ Status(t) = 501
                    /\ h_origin[t] = 0

C17_UpgradeCheckFirst == UpgradeHandledFirst(IndicatesUpgrade)

\* the same for the requests whose Upgrade header or first Connection value
\* indicates an upgrade
FirstValueUpgradeHandledFirst == UpgradeHandledFirst(FirstValueIndicatesUpgrade)

\* with get_only set and upgrades disabled, a POST with an Upgrade header
\* and a GET with 'Connection: keep-alive, UpGrade' were both answered 501
RejectedDespiteGetOnly ==
    /\ config.forward_get_only
    /\ ~config.enable_websocket
    /\ \E t, u \in Handlers :
        /\ pc[t] = "returned" /\ pc[u] = "returned"
        /\ req[t].method = POST /\ req[t].headers = UpgradeHeaders
        /\ req[u].method = GET /\ req[u].headers = ConnectionUpgradeHeaders
        /\ Status(t) = 501 /\ Status(u) = 501

\* with get_only and upgrades both set, a POST upgrade request reached the tunnel
TunnelledDespiteGetOnly ==
    /\ config.forward_get_only
    /\ config.enable_websocket
    /\ \E t \in Handlers :
        /\ pc[t] = "returned" /\ req[t].method = POST
        /\ IndicatesUpgrade(req[t].headers)
        /\ Status(t) = 101

(***************************************************************************)
(* C18: with forward_get_only set, a request that is no upgrade request    *)
(* and whose method is not GET is answered 405, the origin is not          *)
(* contacted and the store is neither read nor written for it; a GET       *)
(* request is not answered 405 and goes on to the cacheability decision.   *)
(***************************************************************************)
C18_MethodGate ==
    \A t \in Handlers :
        (Serving(t) /\ config.forward_get_only /\ ~IndicatesUpgrade(req[t].headers)) =>
            IF req[t].method # GET
            THEN /\ pc[t] = "returned"
                 /\ Status(t) = 405
                 /\ h_origin[t] = 0
                 /\ ~h_cache[t]
                 /\ h_lookups[t] = <<>>
                 /\ req[t].should_cache = <<>>
            ELSE /\ req[t].should_cache # <<>>
                 /\ pc[t] = "returned" => Status(t) # 405

\* with get_only set, a POST was answered 405 while a GET was served what
\* the origin answered and stored
C18_Witness ==
    /\ config.forward_get_only
    /\ \E t, u \in Handlers :
        /\ pc[t] = "returned" /\ pc[u] = "returned"
        /\ req[t].method = POST /\ req[t].headers = PlainHeaders
        /\ Status(t) = 405
        /\ req[u].method = GET /\ req[u].headers = PlainHeaders
        /\ h_origin[u] = 1 /\ h_cache[u]
        /\ Status(u) = 200

(***************************************************************************)
(* C19: a handler serving a cacheable request looks its key up in the      *)
(* positive map first and, when that misses, in the negative map; it goes  *)
(* on to the origin only after both lookups missed.                        *)
(***************************************************************************)
PastLookups(t) == pc[t] \in {"read_body", "send", "response_body", "cache_set"}

Cacheable(t) == req[t].should_cache = <<TRUE>>

C19_LookupOrder ==
    \A t \in Handlers :
        (Serving(t) /\ Cacheable(t)) =>
            /\ h_lookups[t] \in {<<>>, <<"store">>, <<"store", "store_404">>}
            /\ (PastLookups(t) \/ h_origin[t] > 0) =>
                    h_lookups[t] = <<"store", "store_404">>

\* what the handler does instead: one lookup, in the positive map, and the
\* negative map is never filled
PositiveLookupOnly ==
    /\ store_404 = EmptyMap /\ keys_404 = <<>>
    /\ \A t \in Handlers :
        /\ h_lookups[t] \in {<<>>, <<"store">>}
        /\ (Serving(t) /\ Cacheable(t) /\ (PastLookups(t) \/ h_origin[t] > 0)) =>
                h_lookups[t] = <<"store">>

(***************************************************************************)
(* C20: an origin response classified as 404 is stored in the bounded      *)
(* negative map and not in the positive map, any other response in the     *)
(* positive map; so the cached responses classified as 404 never number    *)
(* more than cache_404_capacity.  No configuration checked sets            *)
(* use_404_meta, so a response is classified as 404 by its status.         *)
(***************************************************************************)
Classified404(response) == response.status = 404

C20_NegativeInsert ==
    /\ \A k \in DOMAIN store : ~Classified404(store[k])
    /\ \A k \in DOMAIN store_404 : Classified404(store_404[k])
    /\ Cardinality({k \in DOMAIN store : Classified404(store[k])})
           + Cardinality(DOMAIN store_404) <= cache_404_capacity
    /\ \A t \in Handlers :
        (pc[t] = "returned" /\ Cacheable(t) /\ h_origin[t] = 1 /\ h_cache[t]
            /\ req[t].cached # <<>> /\ Classified404(req[t].cached[1])) =>
                req[t].cache_key \in Range(keys_404)

(***************************************************************************)
(* C21: a failure reading the inbound body is answered 400 and the origin  *)
(* is not contacted; a failure of the send to the origin or of reading its *)
(* response body is answered 502; the step that fails leaves the cache     *)
(* store as it was, a failed request has stored nothing, and no request    *)
(* contacts the origin more than once.                                     *)
(***************************************************************************)
Failed(t, code) == client_response[t] = <<status_response(code)>>

FailureStep ==
    \A t \in Handlers :
        /\ (pc[t] = "read_body" /\ req'[t].body = "failed") =>
                /\ pc'[t] = "returned" /\ Failed(t, 400)'
                /\ h_origin'[t] = 0
                /\ cacheVars' = cacheVars
        /\ (pc[t] = "send" /\ pc'[t] \notin {"send", "response_body", "dropped"}) =>
                /\ pc'[t] = "returned" /\ Failed(t, 502)'
                /\ req'[t].cached = <<>>
                /\ h_origin'[t] = 1
                /\ cacheVars' = cacheVars
        /\ (pc[t] = "response_body" /\ pc'[t] = "returned" /\ req'[t].cached = <<>>) =>
                /\ Failed(t, 502)'
                /\ h_origin'[t] = 1
                /\ cacheVars' = cacheVars
        /\ (pc[t] # "returned" /\ pc'[t] = "returned" /\ (Failed(t, 400)' \/ Failed(t, 502)')) =>
                /\ pc[t] \in {"read_body", "send", "response_body", "upgrade"}
                /\ cacheVars' = cacheVars

C21_FailureSemantics ==
    /\ [](\A t \in Handlers : h_origin[t] <= 1)
    /\ [](\A t \in Handlers :
            (pc[t] = "returned" /\ ~IndicatesUpgrade(req[t].headers)) =>
                /\ Failed(t, 400) <=> req[t].body = "failed"
                /\ Failed(t, 400) => h_origin[t] = 0
                /\ Failed(t, 502) => (h_origin[t] = 1 /\ req[t].cached = <<>>))
    /\ [][FailureStep]_vars

\* one request was answered 400 and another 502 while the store held an entry
C21_Witness ==
    /\ store # EmptyMap
    /\ \E t, u \in Handlers :
        /\ pc[t] = "returned" /\ Failed(t, 400) /\ req[t].body = "failed"
        /\ pc[u] = "returned" /\ Failed(u, 502) /\ h_origin[u] = 1 /\ h_cache[u]

(***************************************************************************)
(* C24: handlers that miss on the same key each contact the origin and     *)
(* each insert; an insert replaces what is stored under the key, so the    *)
(* entry is that of the insert that came last; the store never holds, and  *)
(* a lookup never returns, anything but a response as an insert wrote it.  *)
(***************************************************************************)
CompleteResponses ==
    {[body |-> r.body, headers |-> convert_headers_to_map(r.headers), status |-> r.status] :
        r \in OriginReplies}

Fetched(t) == req[t].cached # <<>>

InsertStep ==
    \A t \in Handlers :
        Stores(t) =>
            /\ req[t].cached[1] \in CompleteResponses
            /\ store' = [k \in DOMAIN store \cup {req[t].cache_key} |->
                            IF k = req[t].cache_key THEN req[t].cached[1] ELSE store[k]]

C24_LastWriterWins ==
    /\ [](\A k \in DOMAIN store : store[k] \in CompleteResponses)
    /\ [](\A t \in Handlers :
            /\ (Serving(t) /\ Fetched(t)) => h_origin[t] = 1
            /\ (pc[t] = "returned" /\ Cacheable(t) /\ ~Fetched(t) /\ h_origin[t] = 0
                    /\ req[t].body = "unread") =>
                    \E c \in CompleteResponses :
                        client_response[t] = <<build_response_from_cache(c)>>)
    /\ [][InsertStep]_vars

\* two handlers missed on the same key, fetched different responses and
\* both inserted; the entry is one of the two
C24_Witness ==
    \E t, u \in Handlers :
        /\ t # u
        /\ pc[t] = "returned" /\ pc[u] = "returned"
        /\ Cacheable(t) /\ Cacheable(u)
        /\ req[t].cache_key = req[u].cache_key
        /\ Fetched(t) /\ Fetched(u)
        /\ h_lookups[t] = <<"store">> /\ h_lookups[u] = <<"store">>
        /\ req[t].cached # req[u].cached
        /\ req[t].cache_key \in DOMAIN store
        /\ store[req[t].cache_key] = req[u].cached[1]

(***************************************************************************)
(* C25: a request task dropped at an await of proxy_handler (the guard of  *)
(* the lookup, the inbound body, the origin response, its body, the write  *)
(* guard of the insert) leaves the cache store as it was: the store        *)
(* changes only by the insert of a handler that goes on to return, or by   *)
(* the listener.                                                           *)
(***************************************************************************)
DropStep ==
    /\ \A t \in Handlers :
        (pc[t] # "dropped" /\ pc'[t] = "dropped") =>
            /\ pc[t] \in SuspensionPoints
            /\ cacheVars' = cacheVars
            /\ h_stored' = h_stored
    /\ store' # store =>
        \/ listener.pc \in {"clear", "clear_by_pattern"}
        \/ \E t \in Handlers : Stores(t)

C25_CancelLeavesStore == [][DropStep]_vars

\* a task was dropped while it waited to insert, and its key is not stored
C25_Witness ==
    \E t \in Handlers :
        /\ pc[t] = "dropped"
        /\ req[t].body = "cache_set"
        /\ req[t].cache_key \notin DOMAIN store

(***************************************************************************)
(* C29: with the configuration of CreateProxyConfig::new, every request    *)
(* whose method is not GET is forwarded to the origin: none is answered    *)
(* from the cache.                                                         *)
(***************************************************************************)
C29_MutatingPassThrough ==
    \A t \in Handlers :
        (/\ config = DefaultConfig
         /\ pc[t] = "returned"
         /\ req[t].method # GET
         /\ ~FirstValueIndicatesUpgrade(req[t].headers)
         /\ req[t].body # "failed") =>
            /\ h_origin[t] = 1
            /\ Fetched(t) \/ Failed(t, 502)

\* what the code does instead: the response to a POST is stored and served
PostServedFromCache ==
    \E t \in Handlers :
        /\ config = DefaultConfig
        /\ pc[t] = "returned" /\ req[t].method = POST
        /\ h_origin[t] = 0 /\ h_lookups[t] = <<"store">>
        /\ req[t].cache_key \in DOMAIN store
        /\ client_response[t] = <<build_response_from_cache(store[req[t].cache_key])>>

(***************************************************************************)
(* C27: the default key is METHOD:PATH when the query is empty and         *)
(* METHOD:PATH?QUERY otherwise; it does not depend on the headers, is the  *)
(* same for the same RequestInfo, and, for methods without ':' and paths   *)
(* without '?', two requests have the same key if and only if they have    *)
(* the same method, path and query.                                        *)
(***************************************************************************)
Has(s, ch) == \E i \in DOMAIN s : s[i] = ch

SameRequest(a, b) == a.method = b.method /\ a.path = b.path /\ a.query = b.query

KeyForm(a, key) ==
    /\ SubSeq(key, 1, Len(a.method) + 1 + Len(a.path)) = a.method \o <<":">> \o a.path
    /\ LET rest == SubSeq(key, Len(a.method) + Len(a.path) + 2, Len(key))
       IN  IF a.query = <<>> THEN rest = <<>> ELSE rest = <<"?">> \o a.query

C27_DefaultCacheKey ==
    Returned("cache_key_fn") =>
        LET a == mcall.first
            b == mcall.second
        IN  /\ KeyForm(a, Result.first)
            /\ KeyForm(b, Result.second)
            /\ SameRequest(a, b) => Result.first = Result.second
            /\ (~Has(a.method, ":") /\ ~Has(b.method, ":")
                   /\ ~Has(a.path, "?") /\ ~Has(b.path, "?")) =>
                    (Result.first = Result.second <=> SameRequest(a, b))

\* two requests that differ in their headers only, and two that differ in
\* their query only
C27_Witness ==
    /\ Returned("cache_key_fn")
    /\ mcall.first.query # <<>>
    /\ mcall.first.headers # mcall.second.headers
    /\ SameRequest(mcall.first, mcall.second)
    /\ Result.first = Result.second

\* without the restriction on methods and paths, different requests can
\* have the same key
KeysCollide ==
    /\ Returned("cache_key_fn")
    /\ ~SameRequest(mcall.first, mcall.second)
    /\ Result.first = Result.second

(***************************************************************************)
(* C28: the headers forwarded to the origin on the non-upgrade path hold   *)
(* none of Host, Connection, Keep-Alive, Transfer-Encoding, TE, Trailer,   *)
(* Proxy-Authorization, Proxy-Authenticate and Upgrade, and hold every     *)
(* other inbound header whose value is text, with its value.               *)
(***************************************************************************)
HopByHop ==
    {"host", "connection", "keep-alive", "transfer-encoding", "te", "trailer",
     "proxy-authorization", "proxy-authenticate", "upgrade"}

C28_HopByHopStripped ==
    Returned("convert_headers") =>
        /\ DOMAIN Result \cap HopByHop = {}
        /\ \A i \in DOMAIN mcall.headers :
              LET h == mcall.headers[i]
              IN  (h.text /\ h.name \notin HopByHop) =>
                      (h.name \in DOMAIN Result /\
                       \E j \in DOMAIN mcall.headers :
                           mcall.headers[j].name = h.name /\ Result[h.name] = mcall.headers[j].value)

\* what the code strips: the Host lines, and nothing else
OnlyHostStripped ==
    Returned("convert_headers") =>
        DOMAIN Result = {mcall.headers[i].name : i \in {j \in DOMAIN mcall.headers :
                            mcall.headers[j].text /\ mcall.headers[j].name # "host"}}

(***************************************************************************)
(* C26: with a bearer token configured, a request to the refresh route     *)
(* whose Authorization header is missing or is not exactly                 *)
(* 'Bearer <token>' is answered 401, sends no message and leaves the cache *)
(* as it was; a request with exactly that header, and every request when   *)
(* no token is configured, sends exactly one All message and is answered   *)
(* 200.                                                                    *)
(***************************************************************************)
ExactBearer(authorization) ==
    /\ auth_token # <<>>
    /\ authorization # <<>>
    /\ authorization[1].text
    /\ Len(authorization[1].value) = Len(Bearer) + Len(auth_token[1])
    /\ \A i \in DOMAIN authorization[1].value :
          authorization[1].value[i] =
              IF i <= Len(Bearer) THEN Bearer[i] ELSE auth_token[1][i - Len(Bearer)]

ControlStep ==
    (n_requests' = n_requests + 1) =>
        /\ cacheVars' = cacheVars
        /\ IF auth_token = <<>> \/ ExactBearer(control'.authorization)
           THEN /\ control'.status = 200
                /\ h_sent' = Append(h_sent, RefreshAll)
                /\ chan' = Append(chan, RefreshAll)
           ELSE /\ control'.status = 401
                /\ h_sent' = h_sent
                /\ chan' = chan
                /\ listener' = listener

C26_ControlAuthorization == [][ControlStep]_vars

\* with token 't' configured, a request with 'Bearer tt' was answered 401
\* after one with 'Bearer t' was answered 200, and the listener emptied the
\* store for the one message sent
C26_Witness ==
    /\ auth_token = <<<<"t">>>>
    /\ control = [authorization |-> <<[value |-> Bearer \o <<"t", "t">>, text |-> TRUE]>>,
                  status |-> 401]
    /\ h_sent = <<RefreshAll>>
    /\ chan = <<>>
    /\ listener.pc = "recv"
    /\ store = EmptyMap

\* ---------------------------------------------------------------------------
\* C22: no step of an upgrade request, of its tunnel or of the peers reads or
\* writes a cache entry, whatever the outcome; when the origin's status is
\* not 101 the client gets the origin's response as it is and no tunnel task
\* is started; a failure to send gives 502 and no tunnel task either.
\* ---------------------------------------------------------------------------
OriginAnswered(t) == pc[t] = "send_request" /\ pc'[t] = "returned"

UpgradeStep ==
    /\ UNCHANGED <<cacheVars, historyVars, h_cache, h_lookups, h_stored>>
    /\ \A t \in Handlers :
        OriginAnswered(t) =>
            IF tunnel'.backend_response = <<>>
            THEN client_response'[t] = <<status_response(502)>> /\ tunnel'.pc = "none"
            ELSE IF tunnel'.backend_response[1].status = 101
                 THEN client_response'[t][1].status = 101 /\ tunnel'.pc = "join"
                 ELSE /\ client_response'[t] = tunnel'.backend_response
                      /\ tunnel'.pc = "none"

C22_UpgradeBypassesCache == [][UpgradeStep]_vars

\* the origin answered 404 to an upgrade request whose key is stored
C22_Witness ==
    \E t \in Handlers :
        /\ pc[t] = "returned"
        /\ tunnel.backend_response # <<>>
        /\ tunnel.backend_response[1].status = 404
        /\ default_cache_key(req[t].method, req[t].path, req[t].query) \in DOMAIN store

\* a tunnel failed after the 101, over a store that holds entries
TunnelFailedLater == tunnel.result = "error" /\ store # EmptyMap

\* ---------------------------------------------------------------------------
\* C23: once both upgrade handles have resolved, the bytes a peer sent reach
\* the other peer in order, none lost, none twice, and when either peer has
\* closed and the tunnel can take no further step, the tunnel task has ended
\* and the connection to the other peer is closed.
\* ---------------------------------------------------------------------------
IsPrefix(a, b) == Len(a) <= Len(b) /\ SubSeq(b, 1, Len(a)) = a

\* the tunnel task can take a step of its own
TunnelCanStep ==
    \/ ENABLED TunnelJoin
    \/ ENABLED CopyClientToOrigin
    \/ ENABLED CopyOriginToClient
    \/ ENABLED TunnelFinish

Copying == tunnel.pc = "copy" \/ tunnel.result = "closed"

\* what was delivered is what was sent, up to what is still in transit
BytesInOrder ==
    Copying =>
        /\ wire.origin_in \o wire.client_out = wire.client_sent
        /\ wire.client_in \o wire.origin_out = wire.origin_sent

\* at rest, everything sent has been delivered in the directions still open
BytesDelivered ==
    (Copying /\ ~TunnelCanStep) =>
        /\ wire.origin_in = wire.client_sent
        /\ wire.client_in = wire.origin_sent

C23_TunnelTransparency ==
    /\ BytesInOrder
    /\ BytesDelivered
    /\ (Copying /\ ~TunnelCanStep /\ (wire.client_eof \/ wire.origin_eof)) =>
            /\ tunnel.pc = "done"
            /\ wire.client_shut /\ wire.origin_shut

\* the client has closed, its bytes are delivered, and the tunnel task waits
\* for the origin with nothing to do
ClientClosedTunnelOpen ==
    /\ tunnel.pc = "copy"
    /\ wire.client_eof /\ tunnel.a_to_b = "done"
    /\ ~wire.origin_eof
    /\ ~TunnelCanStep
    /\ ~wire.client_shut

\* a tunnel that ended normally had read the end of both streams
ClosedOnlyWhenBothClosed == tunnel.result = "closed" => wire.client_eof /\ wire.origin_eof

\* ---------------------------------------------------------------------------
\* C30: the handle on the client's upgraded stream is reserved, and still
\* unresolved, while the origin is contacted; a handler that awaits the
\* origin's answer can always return the 101 response, and returns it with
\* both handles unresolved; no step of the request task ends the tunnel; the
\* tunnel ends only on the end of both streams, a stream error or a failed
\* upgrade handle.
\* ---------------------------------------------------------------------------
ContactingOrigin(t) == pc[t] \in {"connect", "handshake", "send_request"}

ReturnsSwitching(t) == UpgradeSendRequest(t) /\ tunnel'.pc = "join"

ReservedFirst ==
    \A t \in Handlers :
        /\ ContactingOrigin(t) => tunnel.client_upgrade = "pending"
        /\ pc[t] = "send_request" => ENABLED ReturnsSwitching(t)

HandshakeStep ==
    /\ (tunnel.pc = "none" /\ tunnel'.pc # "none") =>
            /\ tunnel'.pc = "join"
            /\ tunnel'.client_upgrade = "pending"
            /\ tunnel'.backend_upgrade = "pending"
            /\ \E t \in Handlers : OriginAnswered(t) /\ client_response'[t][1].status = 101
    /\ (tunnel.client_upgrade = "pending" /\ tunnel'.client_upgrade \in {"ok", "failed"}) =>
            \A t \in Handlers : ~ContactingOrigin(t)
    /\ (pc' # pc /\ tunnel.pc # "none") => tunnel' = tunnel /\ wire' = wire
    /\ (tunnel.pc # "done" /\ tunnel'.pc = "done") =>
            \/ /\ tunnel'.result = "closed"
               /\ wire.client_eof /\ wire.origin_eof
               /\ wire.client_out = <<>> /\ wire.origin_out = <<>>
            \/ tunnel'.result = "error" /\ tunnel.pc = "copy"
            \/ /\ tunnel'.result = "upgrade_failed"
               /\ "failed" \in {tunnel.client_upgrade, tunnel.backend_upgrade}

C30_HandshakeOrdering == []ReservedFirst /\ [][HandshakeStep]_vars

\* the request task has ended and its tunnel copies bytes
C30_Witness ==
    /\ \A t \in Handlers : pc[t] = "idle"
    /\ tunnel.pc = "copy"
    /\ wire.origin_in # <<>>

\* ---------------------------------------------------------------------------
\* C31: the guards of the store are taken in one order (positive map,
\* negative map, FIFO): a task that waits for a guard holds only guards
\* earlier in that order; whenever an operation is under way some task inside
\* an operation can take a step; and under fair scheduling every operation
\* that was started returns.
\* ---------------------------------------------------------------------------
Rank(l) == IF l = "store" THEN 1 ELSE IF l = "store_404" THEN 2 ELSE 3

Held(t) == {l \in Locks : lock[l] = t}

Awaited(t) == {l \in Locks : \E i \in DOMAIN waiting[l] : waiting[l][i] = t}

Running(t) == pc[t] \notin {"idle", "returned"}

LockOrder ==
    \A t \in StoreTasks : \A h \in Held(t), l \in Awaited(t) : Rank(h) < Rank(l)

NoCircularWait ==
    (\E t \in StoreTasks : Running(t)) => \E t \in StoreTasks : ENABLED Proceed(t)

OperationsComplete == \A t \in StoreTasks : Running(t) ~> pc[t] = "returned"

C31_DeadlockFreedom == []LockOrder /\ []NoCircularWait /\ OperationsComplete

\* set_404 holds the negative map's guard and is next for the FIFO's, while
\* clear holds the positive map's guard and waits for the negative map's
C31_Witness ==
    \E t, u \in StoreTasks :
        /\ t # u
        /\ op[t].name = "set_404" /\ lock.store_404 = t /\ Granted(t, "keys_404")
        /\ op[u].name = "clear" /\ lock.store = u /\ Granted(u, "store_404")

\* ---------------------------------------------------------------------------
\* C33: whichever constructor built the store, its negative-map capacity is
\* the configured cache_404_capacity, and under a configured capacity of 0
\* the negative map stays empty.
\* ---------------------------------------------------------------------------
C33_ConstructorsHonourCapacity ==
    /\ cache_404_capacity = config.cache_404_capacity
    /\ config.cache_404_capacity = 0 => store_404 = EmptyMap

\* a 404 response is stored although the configuration disables 404 caching
DisabledYetStored == config.cache_404_capacity = 0 /\ store_404 # EmptyMap

\* ---------------------------------------------------------------------------
\* C35: no key occurs twice in keys_404; whenever size_404 can read the
\* negative map, the FIFO is as long as the map is large; and the FIFO that
\* set_404(k, v) leaves is the newest cache_404_capacity keys of the old FIFO
\* without k, followed by k, so no key is evicted while an older one stays.
\* ---------------------------------------------------------------------------
NoDuplicates ==
    \A i, j \in DOMAIN keys_404 : keys_404[i] = keys_404[j] => i = j

Window(keys, key, capacity) ==
    LET full == Append(SelectSeq(keys, LAMBDA k : k # key), key)
        n == Len(full)
    IN  SubSeq(full, n - Min(n, capacity) + 1, n)

FifoStep ==
    \A t \in StoreTasks :
        Inserts(t) => keys_404' = Window(keys_404, op[t].key, cache_404_capacity)

C35_FifoKeysDistinct ==
    /\ [](NoDuplicates /\ (lock.store_404 = Free => Len(keys_404) = size_404))
    /\ [][FifoStep]_vars

\* a key was inserted again while the FIFO held other keys, and the FIFO is full
C35_Witness ==
    /\ NoWriteGuard
    /\ cache_404_capacity = MaxCapacity
    /\ Len(keys_404) = MaxCapacity
    /\ \E k \in Range(keys_404) : h_reins[k].ahead # {}

\* ---------------------------------------------------------------------------
\* C34: set(k, v) leaves v under k, every other entry of the positive map,
\* the negative map and the FIFO as they were; no step of set_404 changes the
\* positive map; get, get_404, size and size_404 change no map and no FIFO;
\* and a value an operation has returned stays what it was whatever other
\* tasks do to the store afterwards.
\* ---------------------------------------------------------------------------
Completes(t, name) == op[t].name = name /\ Running(t) /\ pc'[t] = "returned"

ReadOnly == {"get", "get_404", "size", "size_404"}

FrameStep ==
    \A t \in StoreTasks :
        /\ Completes(t, "set") =>
            /\ store' = [k \in DOMAIN store \cup {op[t].key} |->
                            IF k = op[t].key THEN op[t].response ELSE store[k]]
            /\ UNCHANGED <<store_404, keys_404>>
        /\ (op[t].name = "set_404" /\ pc'[t] # pc[t]) => UNCHANGED store
        /\ (\E name \in ReadOnly : Completes(t, name)) =>
            /\ UNCHANGED <<store, store_404, keys_404>>
            /\ ret'[t] = IF op[t].name = "get" THEN MapGet(store, op[t].key)
                         ELSE IF op[t].name = "get_404" THEN MapGet(store_404, op[t].key)
                         ELSE IF op[t].name = "size" THEN <<Cardinality(DOMAIN store)>>
                         ELSE <<Cardinality(DOMAIN store_404)>>
        /\ (pc[t] = "returned" /\ pc'[t] = "returned") => ret'[t] = ret[t]

C34_FrameConditions == [][FrameStep]_vars

\* get returned a response, another task's set has overwritten it since with
\* a different one, and the other key's entry is still stored
C34_Witness ==
    \E t, u \in StoreTasks :
        /\ pc[t] = "returned" /\ op[t].name = "get" /\ ret[t] # <<>>
        /\ pc[u] = "returned" /\ op[u].name = "set" /\ op[u].key = op[t].key
        /\ MapGet(store, op[t].key) = <<op[u].response>>
        /\ ret[t] # <<op[u].response>>
        /\ DOMAIN store = LockKeys
        /\ store_404 # EmptyMap

\* get_404 returned a response and the key has been removed since
ReturnedThenRemoved ==
    \E t \in StoreTasks :
        /\ pc[t] = "returned" /\ op[t].name = "get_404" /\ ret[t] # <<>>
        /\ op[t].key \notin DOMAIN store_404

\* ---------------------------------------------------------------------------
\* C32: once the listener has applied every All message sent, the store holds
\* no response that the origin produced before such a message was sent, and
\* no handler holds a response served from such an entry.
\* ---------------------------------------------------------------------------
AllApplied ==
    /\ h_sent # <<>>
    /\ chan = <<>>
    /\ listener = Listening

StaleKeys == h_stale.keys \cap DOMAIN store

ServedFromCache(t) ==
    /\ pc[t] = "returned"
    /\ h_origin[t] = 0
    /\ h_lookups[t] = <<"store">>
    /\ req[t].cache_key \in DOMAIN store
    /\ client_response[t] = <<build_response_from_cache(store[req[t].cache_key])>>

C32_NoStaleAfterInvalidation ==
    AllApplied =>
        /\ StaleKeys = {}
        /\ \A t \in Handlers : ServedFromCache(t) => req[t].cache_key \notin h_stale.keys

\* what the code does instead: after the clear, a later request is answered
\* from an entry whose response was read before the message was sent
StaleServed ==
    /\ AllApplied
    /\ \E t \in Handlers : ServedFromCache(t) /\ req[t].cache_key \in StaleKeys

====
